---------------------------- MODULE Spec2Model ----------------------------
(***************************************************************************)
(* Scheduling core of the event planner: the dependency graph             *)
(* (dependency_manager.py), the critical path method, and the day packer  *)
(* of the timeline engine (timeline_intelligence_engine.py).              *)
(*                                                                         *)
(* Times are integers (one unit of the timedelta/datetime arithmetic).    *)
(* An Optional[datetime] is <<>> (None) or <<t>>.                         *)
(***************************************************************************)
EXTENDS Integers, Sequences, FiniteSets, TLC

VARIABLES
    graph,    \* the DependencyGraph the calls work on
    result,   \* what the last call did: [op, raised, value]
    input,    \* the arguments an engine call is given
    runs      \* what each completed planning run produced

vars == <<graph, result, input, runs>>

\* The variables the graph calls leave alone.
engineVars == <<input, runs>>

-----------------------------------------------------------------------------
(* Generic helpers *)

None == <<>>

Some(t) == <<t>>

Val(o) == o[1]

Range(s) == {s[i] : i \in 1..Len(s)}

MaxOf(S) == CHOOSE x \in S : \A y \in S : y <= x

MinOf(S) == CHOOSE x \in S : \A y \in S : x <= y

\* All the orders in which a runtime may iterate a set (a Python set of str
\* has no defined iteration order: it depends on the per-process hash seed).
RECURSIVE SetOrders(_)
SetOrders(S) ==
    IF S = {} THEN {<<>>}
    ELSE UNION {{<<x>> \o r : r \in SetOrders(S \ {x})} : x \in S}

\* timedelta(minutes=n), timedelta(hours=n) and timedelta(days=n), in seconds.
Minutes(n) == n * 60

Hours(n) == n * 3600

Days(n) == n * 86400

\* str.strip() on the strings the model uses: " " is the whitespace-only one.
Strip(s) == IF s = " " THEN "" ELSE s

-----------------------------------------------------------------------------
(* Value types: app/models/core.py *)

DependencyTypes == {"finish_to_start", "start_to_start", "finish_to_finish", "start_to_finish"}

Activity(id, name, activity_type, duration, priority, vendors, cost, setup, cleanup) ==
    [id |-> id, name |-> name, activity_type |-> activity_type,
     duration |-> duration, priority |-> priority,
     required_vendors |-> vendors, estimated_cost |-> cost,
     setup_time |-> setup, cleanup_time |-> cleanup]

Dependency(p, s, t, lag) ==
    [predecessor_id |-> p, successor_id |-> s, dependency_type |-> t, lag_time |-> lag]

\* Dependency.validate: the list of error messages.
DependencyValidate(d) ==
    (IF d.predecessor_id = "" THEN <<"Predecessor ID is required">> ELSE <<>>)
    \o (IF d.successor_id = "" THEN <<"Successor ID is required">> ELSE <<>>)
    \o (IF d.predecessor_id = d.successor_id
        THEN <<"Activity cannot depend on itself">> ELSE <<>>)
    \o (IF d.dependency_type \notin DependencyTypes
        THEN <<"Invalid dependency type">> ELSE <<>>)

\* Activity.validate: the list of error messages.
ActivityValidate(a) ==
    (IF a.id = "" \/ Strip(a.id) = "" THEN <<"Activity ID is required">> ELSE <<>>)
    \o (IF a.name = "" \/ Strip(a.name) = "" THEN <<"Activity name is required">> ELSE <<>>)
    \o (IF a.duration <= 0 THEN <<"Duration must be positive">> ELSE <<>>)
    \o (IF a.estimated_cost < 0 THEN <<"Estimated cost cannot be negative">> ELSE <<>>)

-----------------------------------------------------------------------------
(* DependencyNode and DependencyGraph: app/services/dependency_manager.py *)

DependencyNode(a) ==
    [activity |-> a, predecessors |-> {}, successors |-> {},
     earliest_start |-> None, earliest_finish |-> None,
     latest_start |-> None, latest_finish |-> None,
     slack |-> 0, is_critical |-> FALSE]

\* DependencyNode.total_duration
NodeTotalDuration(node) ==
    node.activity.setup_time + node.activity.duration + node.activity.cleanup_time

\* A DependencyGraph. nodes is the dict, keys its insertion order (a Python
\* dict iterates in insertion order).
DependencyGraph ==
    [nodes |-> <<>>, keys |-> <<>>, dependencies |-> <<>>,
     critical_path |-> <<>>, total_duration |-> 0]

NodeIds(g) == DOMAIN g.nodes

\* What a call does: the graph it leaves and the exception it raised ("" if none).
Outcome(g, raised) == [graph |-> g, raised |-> raised]

\* DependencyGraph.add_activity
add_activity(g, a) ==
    IF a.id \notin NodeIds(g)
    THEN Outcome([g EXCEPT !.nodes = (a.id :> DependencyNode(a)) @@ g.nodes,
                           !.keys = Append(g.keys, a.id)], "")
    ELSE Outcome(g, "")

\* Mutant of add_dependency: the successor's predecessor set is not updated.
add_dependency_one_sided(g, d) ==
    IF DependencyValidate(d) # <<>> THEN Outcome(g, "ValueError: Invalid dependency")
    ELSE IF d.predecessor_id \notin NodeIds(g)
    THEN Outcome(g, "ValueError: Predecessor activity not found")
    ELSE IF d.successor_id \notin NodeIds(g)
    THEN Outcome(g, "ValueError: Successor activity not found")
    ELSE Outcome(
        [g EXCEPT !.dependencies = Append(g.dependencies, d),
                  !.nodes = [g.nodes EXCEPT
                      ![d.predecessor_id].successors = @ \cup {d.successor_id}]],
        "")

\* DependencyGraph.add_dependency
add_dependency(g, d) ==
    IF DependencyValidate(d) # <<>> THEN Outcome(g, "ValueError: Invalid dependency")
    ELSE IF d.predecessor_id \notin NodeIds(g)
    THEN Outcome(g, "ValueError: Predecessor activity not found")
    ELSE IF d.successor_id \notin NodeIds(g)
    THEN Outcome(g, "ValueError: Successor activity not found")
    ELSE Outcome(
        [g EXCEPT !.dependencies = Append(g.dependencies, d),
                  !.nodes = [g.nodes EXCEPT
                      ![d.predecessor_id].successors = @ \cup {d.successor_id},
                      ![d.successor_id].predecessors = @ \cup {d.predecessor_id}]],
        "")


WHITE == 0

GRAY == 1

BLACK == 2

\* The order one traversal iterates a set in.
IterOrder(S) == CHOOSE s \in SetOrders(S) : TRUE

\* Mutant of BackEdge: any node seen before counts as a back edge.
BackEdgeSeen(color) == color # WHITE

\* The test of dfs for a back edge: the node is on the current path.
BackEdge(color) == color = GRAY

\* DependencyGraph.has_cycle: the nested dfs(node_id), with the colors it
\* leaves; found = TRUE is "return True" (a back edge).
RECURSIVE dfs(_, _, _), dfs_successors(_, _, _)
dfs(g, node_id, colors) ==
    IF BackEdge(colors[node_id]) THEN [found |-> TRUE, colors |-> colors]
    ELSE IF colors[node_id] = BLACK THEN [found |-> FALSE, colors |-> colors]
    ELSE LET r == dfs_successors(g, IterOrder(g.nodes[node_id].successors),
                                 [colors EXCEPT ![node_id] = GRAY])
         IN  IF r.found THEN r
             ELSE [found |-> FALSE, colors |-> [r.colors EXCEPT ![node_id] = BLACK]]

dfs_successors(g, succs, colors) ==
    IF succs = <<>> THEN [found |-> FALSE, colors |-> colors]
    ELSE LET r == dfs(g, Head(succs), colors)
         IN  IF r.found THEN r ELSE dfs_successors(g, Tail(succs), r.colors)

\* The outer loop of has_cycle over self.nodes (dict order).
RECURSIVE has_cycle_loop(_, _, _)
has_cycle_loop(g, ids, colors) ==
    IF ids = <<>> THEN FALSE
    ELSE IF colors[Head(ids)] = WHITE
    THEN LET r == dfs(g, Head(ids), colors)
         IN  IF r.found THEN TRUE ELSE has_cycle_loop(g, Tail(ids), r.colors)
    ELSE has_cycle_loop(g, Tail(ids), colors)

\* DependencyGraph.has_cycle
has_cycle(g) == has_cycle_loop(g, g.keys, [id \in NodeIds(g) |-> WHITE])

\* Mutant of KahnReady: every successor joins the queue, whatever its in-degree.
KahnReadyAlways(in_degree, successor_id) == TRUE

\* Kahn's loop: a successor joins the queue when its in-degree reaches zero.
KahnReady(in_degree, successor_id) == in_degree[successor_id] = 0

\* The while loop of topological_sort, for every order the successor sets
\* may be iterated in: the set of result lists it can build.
RECURSIVE KahnLoop(_, _, _, _)
KahnLoop(g, in_degree, queue, res) ==
    IF queue = <<>> THEN {res}
    ELSE LET node_id == Head(queue)
             succs == g.nodes[node_id].successors
             deg == [id \in DOMAIN in_degree |->
                        IF id \in succs THEN in_degree[id] - 1 ELSE in_degree[id]]
         IN  UNION {KahnLoop(g, deg,
                             Tail(queue) \o SelectSeq(ord, LAMBDA s : KahnReady(deg, s)),
                             Append(res, node_id))
                    : ord \in SetOrders(succs)}

\* DependencyGraph.topological_sort: every outcome the call can have, each
\* [raised, order].
topological_sort(g) ==
    IF has_cycle(g)
    THEN {[raised |-> "ValueError: Cannot perform topological sort: dependency graph has cycles",
           order |-> <<>>]}
    ELSE LET in_degree == [id \in NodeIds(g) |-> Cardinality(g.nodes[id].predecessors)]
             queue == SelectSeq(g.keys, LAMBDA id : in_degree[id] = 0)
         IN  {IF Len(r) # Cardinality(NodeIds(g))
              THEN [raised |-> "ValueError: Topological sort failed: dependency graph has cycles",
                    order |-> <<>>]
              ELSE [raised |-> "", order |-> r]
              : r \in KahnLoop(g, in_degree, queue, <<>>)}

-----------------------------------------------------------------------------
(* DependencyManager: the critical path method *)

\* datetime.min, the sort key of a node without earliest_start.
DatetimeMin == -1000000

\* A stable ascending sort: the indices of keys, a list of integers, in
\* sorted order.
StableSortIndices(keys) ==
    LET rank(i) == 1 + Cardinality({j \in 1..Len(keys) :
                        keys[j] < keys[i] \/ (keys[j] = keys[i] /\ j < i)})
    IN  [r \in 1..Len(keys) |-> CHOOSE i \in 1..Len(keys) : rank(i) = r]

\* list.sort(key=...) on a list of ids, key a function of the id.
StableSortBy(s, key) ==
    LET idx == StableSortIndices([i \in 1..Len(s) |-> key[s[i]]])
    IN  [r \in 1..Len(s) |-> s[idx[r]]]

\* next((d for d in graph.dependencies if ...), None): the first dependency
\* from pred_id to succ_id, as <<d>>, or None.
FirstDependency(g, pred_id, succ_id) ==
    LET hits == {i \in 1..Len(g.dependencies) :
                    /\ g.dependencies[i].predecessor_id = pred_id
                    /\ g.dependencies[i].successor_id = succ_id}
    IN  IF hits = {} THEN None ELSE Some(g.dependencies[MinOf(hits)])

\* Mutant of ForwardCandidate: the lag of the edge is left out.
ForwardCandidateNoLag(dependency, pred_node, node) ==
    IF dependency.dependency_type \in {"finish_to_start", "finish_to_finish"}
    THEN Val(pred_node.earliest_finish)
    ELSE Val(pred_node.earliest_start)

\* The candidate start a predecessor edge gives in _forward_pass.
ForwardCandidate(dependency, pred_node, node) ==
    IF dependency.dependency_type = "finish_to_start"
    THEN Val(pred_node.earliest_finish) + dependency.lag_time
    ELSE IF dependency.dependency_type = "start_to_start"
    THEN Val(pred_node.earliest_start) + dependency.lag_time
    ELSE IF dependency.dependency_type = "finish_to_finish"
    THEN Val(pred_node.earliest_finish) + dependency.lag_time - NodeTotalDuration(node)
    ELSE Val(pred_node.earliest_start) + dependency.lag_time - NodeTotalDuration(node)

\* The earliest_start _forward_pass gives one node.
ForwardEarliestStart(g, activity_id, start_time) ==
    LET node == g.nodes[activity_id]
        candidates == {ForwardCandidate(Val(FirstDependency(g, pred_id, activity_id)),
                                        g.nodes[pred_id], node)
                       : pred_id \in {p \in node.predecessors :
                                        FirstDependency(g, p, activity_id) # None}}
    IN  IF node.predecessors = {} THEN start_time
        ELSE MaxOf({start_time} \cup candidates)

\* The loop of _forward_pass over topo_order.
RECURSIVE ForwardLoop(_, _, _)
ForwardLoop(g, topo_order, start_time) ==
    IF topo_order = <<>> THEN g
    ELSE LET activity_id == Head(topo_order)
             es == ForwardEarliestStart(g, activity_id, start_time)
             g1 == [g EXCEPT !.nodes[activity_id].earliest_start = Some(es),
                             !.nodes[activity_id].earliest_finish =
                                 Some(es + NodeTotalDuration(g.nodes[activity_id]))]
         IN  ForwardLoop(g1, Tail(topo_order), start_time)

\* Mutant of BackwardCandidate: the start_to_start and start_to_finish
\* branches forget the node's own duration.
BackwardCandidateNoDuration(dependency, succ_node, node) ==
    IF dependency.dependency_type \in {"finish_to_start", "start_to_start"}
    THEN Val(succ_node.latest_start) - dependency.lag_time
    ELSE Val(succ_node.latest_finish) - dependency.lag_time

\* The candidate finish a successor edge gives in _backward_pass.
BackwardCandidate(dependency, succ_node, node) ==
    IF dependency.dependency_type = "finish_to_start"
    THEN Val(succ_node.latest_start) - dependency.lag_time
    ELSE IF dependency.dependency_type = "start_to_start"
    THEN Val(succ_node.latest_start) - dependency.lag_time + NodeTotalDuration(node)
    ELSE IF dependency.dependency_type = "finish_to_finish"
    THEN Val(succ_node.latest_finish) - dependency.lag_time
    ELSE Val(succ_node.latest_finish) - dependency.lag_time + NodeTotalDuration(node)

\* Mutant of BackwardLatestFinish: the successors are not looked at.
BackwardLatestFinishProjectEnd(g, activity_id, project_end) == project_end

\* The latest_finish _backward_pass gives one node.
BackwardLatestFinish(g, activity_id, project_end) ==
    LET node == g.nodes[activity_id]
        candidates == {BackwardCandidate(Val(FirstDependency(g, activity_id, succ_id)),
                                         g.nodes[succ_id], node)
                       : succ_id \in {s \in node.successors :
                                        FirstDependency(g, activity_id, s) # None}}
    IN  IF node.successors = {} THEN project_end
        ELSE MinOf({project_end} \cup candidates)

\* The loop of _backward_pass over the reversed topological order.
RECURSIVE BackwardLoop(_, _, _)
BackwardLoop(g, topo_order, project_end) ==
    IF topo_order = <<>> THEN g
    ELSE LET activity_id == Head(topo_order)
             lf == BackwardLatestFinish(g, activity_id, project_end)
             g1 == [g EXCEPT !.nodes[activity_id].latest_finish = Some(lf),
                             !.nodes[activity_id].latest_start =
                                 Some(lf - NodeTotalDuration(g.nodes[activity_id]))]
         IN  BackwardLoop(g1, Tail(topo_order), project_end)

Reverse(s) == [i \in 1..Len(s) |-> s[Len(s) + 1 - i]]

\* The earliest_finish values max() ranges over (a datetime is always truthy).
EarliestFinishes(g) ==
    {Val(g.nodes[id].earliest_finish) : id \in {n \in NodeIds(g) : g.nodes[n].earliest_finish # None}}

\* DependencyManager._forward_pass, given what topological_sort returned.
forward_pass(g, topo, start_time) ==
    IF topo.raised # "" THEN Outcome(g, topo.raised)
    ELSE Outcome(ForwardLoop(g, topo.order, start_time), "")

\* DependencyManager._backward_pass, given what topological_sort returned.
backward_pass(g, topo) ==
    IF topo.raised # "" THEN Outcome(g, topo.raised)
    ELSE IF EarliestFinishes(g) = {}
    THEN Outcome(g, "ValueError: max() arg is an empty sequence")
    ELSE Outcome(BackwardLoop(g, Reverse(topo.order), MaxOf(EarliestFinishes(g))), "")

\* Mutant of calculate_slack: a node is critical only when its slack is
\* negative.
calculate_slack_negative(g) ==
    [g EXCEPT !.nodes = [id \in NodeIds(g) |->
        LET node == g.nodes[id]
        IN  IF node.latest_start # None /\ node.earliest_start # None
            THEN [node EXCEPT
                    !.slack = Val(node.latest_start) - Val(node.earliest_start),
                    !.is_critical = (Val(node.latest_start) - Val(node.earliest_start) < 0)]
            ELSE node]]

\* DependencyManager._calculate_slack
calculate_slack(g) ==
    [g EXCEPT !.nodes = [id \in NodeIds(g) |->
        LET node == g.nodes[id]
        IN  IF node.latest_start # None /\ node.earliest_start # None
            THEN [node EXCEPT
                    !.slack = Val(node.latest_start) - Val(node.earliest_start),
                    !.is_critical = (Val(node.latest_start) - Val(node.earliest_start) = 0)]
            ELSE node]]

\* Mutant of find_critical_path: the critical ids are left in dict order.
find_critical_path_unsorted(g) ==
    SelectSeq(g.keys, LAMBDA id : g.nodes[id].is_critical)

\* DependencyManager._find_critical_path
find_critical_path(g) ==
    LET critical_activities == SelectSeq(g.keys, LAMBDA id : g.nodes[id].is_critical)
        key == [aid \in NodeIds(g) |->
                    IF g.nodes[aid].earliest_start = None THEN DatetimeMin
                    ELSE Val(g.nodes[aid].earliest_start)]
    IN  StableSortBy(critical_activities, key)

\* Mutant of CycleError: the analysis results are cleared before the raise.
CycleErrorCleared(g) ==
    Outcome([g EXCEPT !.critical_path = <<>>],
            "ValueError: Cannot calculate critical path: dependency graph has cycles")

\* The raise of calculate_critical_path on a cyclic graph: it comes before
\* any assignment.
CycleError(g) ==
    Outcome(g, "ValueError: Cannot calculate critical path: dependency graph has cycles")

\* DependencyManager.calculate_critical_path: every outcome the call can
\* have (one per order topological_sort may return).
calculate_critical_path(g, start_time) ==
    IF has_cycle(g)
    THEN {CycleError(g)}
    ELSE {LET fwd == forward_pass(g, topo, start_time)
              bwd == backward_pass(fwd.graph, topo)
              g3 == calculate_slack(bwd.graph)
              g4 == [g3 EXCEPT !.critical_path = find_critical_path(g3)]
          IN  IF fwd.raised # "" THEN fwd
              ELSE IF bwd.raised # "" THEN bwd
              ELSE IF NodeIds(g4) # {}
              THEN Outcome([g4 EXCEPT !.total_duration =
                                MaxOf(EarliestFinishes(g4)) - start_time], "")
              ELSE Outcome(g4, "")
          : topo \in topological_sort(g)}

\* The over-constrained check of DependencyManager.resolve_conflicts: the
\* entries of nodes whose slack is negative, in dict order.
OverConstrained(g) ==
    SelectSeq(g.keys, LAMBDA id : g.nodes[id].slack # 0 /\ g.nodes[id].slack < 0)

RECURSIVE Concat(_)
Concat(seqs) == IF seqs = <<>> THEN <<>> ELSE Head(seqs) \o Concat(Tail(seqs))

\* The (vendor, activity id) pairs in the order _check_resource_conflicts
\* meets them: nodes in dict order, each node's required_vendors in list order.
VendorEntries(g) ==
    Concat([i \in 1..Len(g.keys) |->
        [j \in 1..Len(g.nodes[g.keys[i]].activity.required_vendors) |->
            <<g.nodes[g.keys[i]].activity.required_vendors[j], g.keys[i]>>]])

\* The keys of vendor_activities, in insertion order.
VendorKeys(g) ==
    LET e == VendorEntries(g)
    IN  [k \in 1..Len(SelectSeq([i \in 1..Len(e) |-> i],
                                LAMBDA i : \A j \in 1..(i - 1) : e[j][1] # e[i][1]))
         |-> e[SelectSeq([i \in 1..Len(e) |-> i],
                         LAMBDA i : \A j \in 1..(i - 1) : e[j][1] # e[i][1])[k]][1]]

\* vendor_activities[vendor] after activities.sort(key=earliest_start or datetime.min)
VendorActivities(g, vendor) ==
    LET e == SelectSeq(VendorEntries(g), LAMBDA x : x[1] = vendor)
        ids == [i \in 1..Len(e) |-> e[i][2]]
        key == [aid \in NodeIds(g) |->
                    IF g.nodes[aid].earliest_start = None THEN DatetimeMin
                    ELSE Val(g.nodes[aid].earliest_start)]
    IN  StableSortBy(ids, key)

\* Whether _check_resource_conflicts reports the adjacent pair (current, next).
VendorOverlap(current_node, next_node) ==
    /\ current_node.earliest_finish # None
    /\ next_node.earliest_start # None
    /\ Val(current_node.earliest_finish) > Val(next_node.earliest_start)

\* DependencyManager._check_resource_conflicts: one entry
\* <<"vendor", vendor, current name, next name>> per conflict.
check_resource_conflicts(g) ==
    LET vendors == VendorKeys(g)
        of(vendor) ==
            LET acts == VendorActivities(g, vendor)
                hits == SelectSeq([i \in 1..(Len(acts) - 1) |-> i],
                            LAMBDA i : VendorOverlap(g.nodes[acts[i]], g.nodes[acts[i + 1]]))
            IN  IF Len(acts) > 1
                THEN [k \in 1..Len(hits) |->
                        <<"vendor", vendor, g.nodes[acts[hits[k]]].activity.name,
                          g.nodes[acts[hits[k] + 1]].activity.name>>]
                ELSE <<>>
    IN  Concat([v \in 1..Len(vendors) |-> of(vendors[v])])

\* DependencyManager.resolve_conflicts: the list of conflicts, each a tuple
\* that stands for the message: <<"cycle">>, <<"over_constrained", name>>,
\* <<"vendor", vendor, name, name>>.
resolve_conflicts(g) ==
    LET over == OverConstrained(g)
    IN  (IF has_cycle(g) THEN <<(<<"cycle">>)>> ELSE <<>>)
        \o [i \in 1..Len(over) |-> <<"over_constrained", g.nodes[over[i]].activity.name>>]
        \o check_resource_conflicts(g)

\* DependencyManager._find_parallel_opportunities
find_parallel_opportunities(g) ==
    LET independent_activities ==
            SelectSeq(g.keys, LAMBDA id : Cardinality(g.nodes[id].predecessors) <= 1)
    IN  IF Len(independent_activities) > 1
        THEN <<(<<"parallel", Len(independent_activities)>>)>>
        ELSE <<>>

\* DependencyManager._suggest_buffer_adjustments
suggest_buffer_adjustments(g) ==
    LET wide == SelectSeq(g.keys, LAMBDA id : g.nodes[id].slack # 0
                                              /\ g.nodes[id].slack > Hours(4))
    IN  [i \in 1..Len(wide) |-> <<"excessive_slack", g.nodes[wide[i]].activity.name>>]

\* DependencyManager._suggest_critical_path_optimizations
suggest_critical_path_optimizations(g) ==
    LET critical_activities == SelectSeq(g.keys, LAMBDA id : g.nodes[id].is_critical)
        long == SelectSeq(critical_activities,
                          LAMBDA id : g.nodes[id].activity.duration > Hours(4))
    IN  (IF 2 * Len(critical_activities) > Len(g.keys)
         THEN <<(<<"critical_half">>)>> ELSE <<>>)
        \o [i \in 1..Len(long) |-> <<"long_critical", g.nodes[long[i]].activity.name>>]

\* DependencyManager.optimize_timeline: the list of suggestions, each a
\* tuple that stands for the message.
optimize_timeline(g) ==
    find_parallel_opportunities(g)
    \o suggest_buffer_adjustments(g)
    \o suggest_critical_path_optimizations(g)

\* Mutant of ActivityIssues: the errors of the activities are dropped.
ActivityIssuesNone(g) == <<>>

\* The loop of validate_timeline over the activities: one entry
\* <<"activity", name, error>> per validation error, nodes in dict order.
ActivityIssues(g) ==
    Concat([i \in 1..Len(g.keys) |->
        LET a == g.nodes[g.keys[i]].activity
            activity_issues == ActivityValidate(a)
        IN  [k \in 1..Len(activity_issues) |-> <<"activity", a.name, activity_issues[k]>>]])

\* The loop of validate_timeline over the dependencies.
DependencyIssues(g) ==
    Concat([i \in 1..Len(g.dependencies) |->
        LET dependency_issues == DependencyValidate(g.dependencies[i])
        IN  [k \in 1..Len(dependency_issues) |-> <<"dependency", dependency_issues[k]>>]])

\* DependencyManager.validate_timeline: the list of issues.
validate_timeline(g) ==
    (IF has_cycle(g) THEN <<(<<"timeline_cycle">>)>> ELSE <<>>)
    \o resolve_conflicts(g)
    \o ActivityIssues(g)
    \o DependencyIssues(g)

\* Mutant of AfterAdvisory: the call clears the critical path it read.
AfterAdvisoryCleared(g) == [g EXCEPT !.critical_path = <<>>]

\* The graph has_cycle, resolve_conflicts, validate_timeline and
\* optimize_timeline leave: none of them assigns to a field of the graph or
\* of a node; the colours, lists and dicts they write are their own.
AfterAdvisory(g) == g

-----------------------------------------------------------------------------
(* DependencyManager.create_dependency_graph and its automatic rules *)

\* str.lower() on the activity names the model uses.
Lower(name) ==
    CASE name = "Mehendi" -> "mehendi"
      [] name = "Haldi" -> "haldi"
      [] name = "Wedding Reception" -> "wedding reception"
      [] name = "Wedding Ceremony" -> "wedding ceremony"
      [] name = "Grand Reception" -> "grand reception"
      [] name = "Venue Setup and Preparation" -> "venue setup and preparation"
      [] name = "Photography and Videography Setup" -> "photography and videography setup"
      [] name = "Event Cleanup and Restoration" -> "event cleanup and restoration"
      [] name = "Guest Welcome and Registration" -> "guest welcome and registration"
      [] name = "Ganesh Puja (AI Enhanced)" -> "ganesh puja (ai enhanced)"
      [] name = "Crowd Management and Security Setup" -> "crowd management and security setup"
      [] name = "Weather Preparation and Tent Setup" -> "weather preparation and tent setup"
      [] name = "Home Preparation and Space Optimization" -> "home preparation and space optimization"
      [] name = "Nikkah" -> "nikkah"
      [] name = "Walima" -> "walima"
      [] name = "Photos" -> "photos"
      [] name = "Dinner" -> "dinner"
      [] name = "Cleanup" -> "cleanup"
      [] OTHER -> name

\* `word in text` (substring test) for the words the code looks for and the
\* lower-cased names above.
StrContains(text, word) ==
    \/ text = word
    \/ <<text, word>> \in {<<"wedding reception", "wedding">>,
                           <<"wedding reception", "reception">>,
                           <<"wedding ceremony", "wedding">>,
                           <<"grand reception", "reception">>,
                           <<"guest welcome and registration", "welcome">>}

hindu_sequence == <<"mehendi", "haldi", "sangeet", "wedding", "reception">>

muslim_sequence == <<"nikkah", "mehndi", "walima">>

\* The first word of the sequence the activity's name contains, as <<word>>,
\* or None (the inner for loop with its break).
FirstCeremony(activity, sequence) ==
    LET hits == {i \in 1..Len(sequence) : StrContains(Lower(activity.name), sequence[i])}
    IN  IF hits = {} THEN None ELSE Some(sequence[MinOf(hits)])

\* The dict a sequence loop fills: ceremony word -> id of the last activity
\* in list order whose first contained word it is.
CeremonyActivities(activities, sequence) ==
    LET at(word) == {i \in 1..Len(activities) :
                        FirstCeremony(activities[i], sequence) = Some(word)}
    IN  [word \in {w \in Range(sequence) : at(w) # {}} |-> activities[MaxOf(at(word))].id]

\* The dependencies joining consecutive ceremonies of a sequence that are
\* both present, lag_time apart.
SequenceDependencies(activities, sequence, lag_time) ==
    LET found == CeremonyActivities(activities, sequence)
        idx == SelectSeq([i \in 1..(Len(sequence) - 1) |-> i],
                         LAMBDA i : sequence[i] \in DOMAIN found
                                    /\ sequence[i + 1] \in DOMAIN found)
    IN  [k \in 1..Len(idx) |->
            Dependency(found[sequence[idx[k]]], found[sequence[idx[k] + 1]],
                       "finish_to_start", lag_time)]

\* DependencyManager._get_cultural_sequence_dependencies
get_cultural_sequence_dependencies(activities) ==
    SequenceDependencies(activities, hindu_sequence, Hours(2))
    \o SequenceDependencies(activities, muslim_sequence, Hours(1))

\* for x in xs: for y in ys: append(make(x, y)) -- the pairs in loop order.
PairsInOrder(xs, ys) ==
    [k \in 1..(Len(xs) * Len(ys)) |->
        <<xs[((k - 1) \div Len(ys)) + 1], ys[((k - 1) % Len(ys)) + 1]>>]

OfType(activities, type) == SelectSeq(activities, LAMBDA a : a.activity_type = type)

\* DependencyManager._generate_automatic_dependencies
generate_automatic_dependencies(activities) ==
    LET prep_activities == OfType(activities, "preparation")
        ceremony_activities == OfType(activities, "ceremony")
        cleanup_activities == OfType(activities, "cleanup")
        photo_activities == OfType(activities, "photography")
        catering_activities == OfType(activities, "catering")
        r1 == PairsInOrder(prep_activities, ceremony_activities)
        r2 == PairsInOrder(ceremony_activities, cleanup_activities)
        r3 == SelectSeq(PairsInOrder(photo_activities, ceremony_activities),
                        LAMBDA pc : pc[2].priority \in {"critical", "high"})
    IN  [k \in 1..Len(r1) |-> Dependency(r1[k][1].id, r1[k][2].id, "finish_to_start", Minutes(15))]
        \o [k \in 1..Len(r2) |-> Dependency(r2[k][1].id, r2[k][2].id, "finish_to_start", Minutes(30))]
        \o [k \in 1..Len(r3) |-> Dependency(r3[k][2].id, r3[k][1].id, "start_to_start", 0)]
        \o [k \in 1..(Len(catering_activities) - 1) |->
                Dependency(catering_activities[k].id, catering_activities[k + 1].id,
                           "finish_to_start", Minutes(30))]
        \o get_cultural_sequence_dependencies(activities)

\* for activity in activities: graph.add_activity(activity)
RECURSIVE AddActivities(_, _)
AddActivities(g, activities) ==
    IF activities = <<>> THEN g
    ELSE AddActivities(add_activity(g, Head(activities)).graph, Tail(activities))

\* for dependency in auto_dependencies: graph.add_dependency(dependency);
\* the first call that raises ends the loop.
RECURSIVE AddDependencies(_, _)
AddDependencies(g, dependencies) ==
    IF dependencies = <<>> THEN Outcome(g, "")
    ELSE LET out == add_dependency(g, Head(dependencies))
         IN  IF out.raised # "" THEN out
             ELSE AddDependencies(out.graph, Tail(dependencies))

\* DependencyManager.create_dependency_graph
create_dependency_graph(activities) ==
    AddDependencies(AddActivities(DependencyGraph, activities),
                    generate_automatic_dependencies(activities))

-----------------------------------------------------------------------------
(* TimelineIntelligenceEngine: app/services/timeline_intelligence_engine.py *)
(* A date is a day number, a datetime the seconds since midnight of day 0, *)
(* a timedelta a number of seconds.                                        *)

\* datetime.combine(date, time)
Combine(d, time) == Days(d) + time

\* datetime.time(): the time of day.
TimeOf(dt) == dt % Days(1)

\* timedelta(seconds=d.total_seconds() * multiplier), the multiplier in per
\* cent; the durations the model uses make every product a whole second.
Scale(d, pct) == (d * pct) \div 100

Max2(x, y) == IF x >= y THEN x ELSE y

Min2(x, y) == IF x <= y THEN x ELSE y

RECURSIVE SumSeq(_)
SumSeq(s) == IF s = <<>> THEN 0 ELSE Head(s) + SumSeq(Tail(s))

TimedActivity(activity, start_time, end_time, buffer_before, buffer_after) ==
    [activity |-> activity, start_time |-> start_time, end_time |-> end_time,
     buffer_before |-> buffer_before, buffer_after |-> buffer_after]

TimelineDay(day_number, date, activities, estimated_cost) ==
    [day_number |-> day_number, date |-> date, activities |-> activities,
     estimated_cost |-> estimated_cost]

Timeline(days, total_duration, critical_path, buffer_time, dependencies, cost) ==
    [days |-> days, total_duration |-> total_duration, critical_path |-> critical_path,
     buffer_time |-> buffer_time, dependencies |-> dependencies,
     total_estimated_cost |-> cost]

\* duration_rules["priority_buffer_multipliers"], in per cent.
priority_buffer_multipliers ==
    [critical |-> 10, high |-> 15, medium |-> 20, low |-> 25, optional |-> 30]

\* The buffer calculate_activity_duration derives from the final duration.
BufferTime(activity) ==
    Max2(Minutes(10),
         Min2(Scale(activity.duration, priority_buffer_multipliers[activity.priority]),
              Hours(1)))

\* _calculate_activity_durations, for activities that already carry their
\* final duration: the TimedActivity list it builds.
calculate_activity_durations(activities) ==
    [i \in 1..Len(activities) |->
        TimedActivity(activities[i], DatetimeMin, DatetimeMin,
                      BufferTime(activities[i]), Minutes(15))]

\* TimelineIntelligenceEngine._calculate_base_duration
calculate_base_duration(context) ==
    LET table == [wedding |-> 3, birthday |-> 1, anniversary |-> 1, corporate |-> 2,
                  housewarming |-> 1, graduation |-> 1, engagement |-> 1,
                  festival |-> 2, conference |-> 3]
        base == IF context.event_type \in DOMAIN table THEN table[context.event_type] ELSE 1
        base_days == base + (IF context.guest_count > 300 THEN 1 ELSE 0)
                          + (IF Len(context.cultural_requirements) > 1 THEN 1 ELSE 0)
    IN  IF context.duration_days > 0 THEN Min2(context.duration_days, base_days + 2)
        ELSE base_days

\* TimelineIntelligenceEngine._create_generation_context; preferences is
\* the dict, here the function from its keys to their values.
create_generation_context(context, start_date, preferences) ==
    [start_date |-> start_date,
     start_time |-> IF "start_time" \in DOMAIN preferences THEN preferences["start_time"]
                    ELSE Combine(start_date, Hours(10)),
     total_duration |-> Days(calculate_base_duration(context)),
     daily_schedule_hours |-> IF "daily_hours" \in DOMAIN preferences
                              THEN preferences["daily_hours"] ELSE 12]

\* TimelineGenerationContext.get_daily_end_time
get_daily_end_time(gen_context, day_start) ==
    day_start + Hours(gen_context.daily_schedule_hours)

\* activity_map = {ta.activity.id: ta for ta in timed_activities}
ActivityMap(timed_activities) ==
    [id \in {timed_activities[i].activity.id : i \in 1..Len(timed_activities)} |->
        timed_activities[MaxOf({i \in 1..Len(timed_activities) :
                                    timed_activities[i].activity.id = id})]]

\* The time the packer reserves for one activity.
ActivityDuration(timed_activity) ==
    timed_activity.activity.setup_time + timed_activity.activity.duration
    + timed_activity.activity.cleanup_time
    + timed_activity.buffer_before + timed_activity.buffer_after

\* Mutant of DailyAppend: the activity is put in front of the day's list.
DailyPrepend(daily_activities, timed_activity) == <<timed_activity>> \o daily_activities

\* daily_activities.append(timed_activity)
DailyAppend(daily_activities, timed_activity) == Append(daily_activities, timed_activity)

\* The for loop of _schedule_activities_to_days; st holds its local
\* variables.
RECURSIVE ScheduleLoop(_, _, _, _)
ScheduleLoop(activity_order, activity_map, gen_context, st) ==
    IF activity_order = <<>> THEN st
    ELSE IF Head(activity_order) \notin DOMAIN activity_map
    THEN ScheduleLoop(Tail(activity_order), activity_map, gen_context, st)
    ELSE LET timed_activity == activity_map[Head(activity_order)]
             day_end_time ==
                 get_daily_end_time(gen_context,
                     Combine(st.current_date, TimeOf(gen_context.start_time)))
             st1 == IF st.current_time + ActivityDuration(timed_activity) > day_end_time
                    THEN [timeline_days |->
                              IF st.daily_activities # <<>>
                              THEN Append(st.timeline_days,
                                          TimelineDay(st.day_number, st.current_date,
                                                      st.daily_activities, st.daily_cost))
                              ELSE st.timeline_days,
                          day_number |-> st.day_number + 1,
                          current_date |-> st.current_date + 1,
                          current_time |-> Combine(st.current_date + 1,
                                                   TimeOf(gen_context.start_time)),
                          daily_activities |-> <<>>,
                          daily_cost |-> 0]
                    ELSE st
             start_time == st1.current_time + timed_activity.buffer_before
             end_time == start_time + timed_activity.activity.setup_time
                         + timed_activity.activity.duration
                         + timed_activity.activity.cleanup_time
             placed == [timed_activity EXCEPT !.start_time = start_time,
                                              !.end_time = end_time]
         IN  ScheduleLoop(Tail(activity_order), activity_map, gen_context,
                 [st1 EXCEPT !.daily_activities = DailyAppend(@, placed),
                             !.daily_cost = @ + timed_activity.activity.estimated_cost,
                             !.current_time = end_time + timed_activity.buffer_after])

\* _schedule_activities_to_days, given what topological_sort returned: the
\* exception it lets through, or the list of TimelineDays.
schedule_activities_to_days(timed_activities, topo, gen_context) ==
    IF topo.raised # "" THEN [raised |-> topo.raised, days |-> <<>>]
    ELSE LET st == ScheduleLoop(topo.order, ActivityMap(timed_activities), gen_context,
                       [timeline_days |-> <<>>,
                        current_date |-> gen_context.start_date,
                        current_time |-> gen_context.start_time,
                        day_number |-> 1,
                        daily_activities |-> <<>>,
                        daily_cost |-> 0])
         IN  [raised |-> "",
              days |-> IF st.daily_activities # <<>>
                       THEN Append(st.timeline_days,
                                   TimelineDay(st.day_number, st.current_date,
                                               st.daily_activities, st.daily_cost))
                       ELSE st.timeline_days]

\* _create_and_analyze_dependencies: every outcome it can have, today being
\* the date the clock gives (date.today()).
create_and_analyze_dependencies(timed_activities, today) ==
    LET activities == [i \in 1..Len(timed_activities) |-> timed_activities[i].activity]
        built == create_dependency_graph(activities)
    IN  IF built.raised # "" THEN {built}
        ELSE calculate_critical_path(built.graph, Combine(today, Hours(10)))

\* sorted(activities, key=lambda a: a.start_time)
SortedByStart(activities) ==
    LET idx == StableSortIndices([i \in 1..Len(activities) |-> activities[i].start_time])
    IN  [r \in 1..Len(activities) |-> activities[idx[r]]]

\* TimedActivity.validate: the errors, each a tuple standing for a message.
TimedActivityValidate(ta) ==
    LET errs == ActivityValidate(ta.activity)
        expected_duration == ta.activity.duration + ta.activity.setup_time
                             + ta.activity.cleanup_time
    IN  [i \in 1..Len(errs) |-> <<errs[i]>>]
        \o (IF ta.start_time >= ta.end_time
            THEN <<(<<"Start time must be before end time">>)>> ELSE <<>>)
        \o (IF ta.end_time - ta.start_time < expected_duration
            THEN <<(<<"Allocated time is less than required time">>)>> ELSE <<>>)

\* TimelineDay.validate
TimelineDayValidate(day) ==
    LET sorted_activities == SortedByStart(day.activities)
        hits == SelectSeq([i \in 1..(Len(sorted_activities) - 1) |-> i],
                          LAMBDA i : sorted_activities[i].end_time
                                        > sorted_activities[i + 1].start_time)
    IN  (IF day.day_number <= 0 THEN <<(<<"Day number must be positive">>)>> ELSE <<>>)
        \o (IF day.estimated_cost < 0
            THEN <<(<<"Estimated cost cannot be negative">>)>> ELSE <<>>)
        \o Concat([i \in 1..Len(day.activities) |-> TimedActivityValidate(day.activities[i])])
        \o [k \in 1..Len(hits) |->
                <<"overlap", sorted_activities[hits[k]].activity.name,
                  sorted_activities[hits[k] + 1].activity.name>>]

\* Timeline.validate
TimelineValidate(timeline) ==
    LET activity_ids == UNION {{timeline.days[i].activities[k].activity.id
                                  : k \in 1..Len(timeline.days[i].activities)}
                               : i \in 1..Len(timeline.days)}
        of(dependency) ==
            LET errs == DependencyValidate(dependency)
            IN  [i \in 1..Len(errs) |-> <<errs[i]>>]
                \o (IF dependency.predecessor_id \notin activity_ids
                    THEN <<(<<"unknown predecessor", dependency.predecessor_id>>)>>
                    ELSE <<>>)
                \o (IF dependency.successor_id \notin activity_ids
                    THEN <<(<<"unknown successor", dependency.successor_id>>)>>
                    ELSE <<>>)
        numbers == [i \in 1..Len(timeline.days) |-> timeline.days[i].day_number]
        sorted_numbers == [r \in 1..Len(numbers) |-> numbers[StableSortIndices(numbers)[r]]]
    IN  (IF timeline.days = <<>>
         THEN <<(<<"Timeline must have at least one day">>)>> ELSE <<>>)
        \o (IF timeline.total_duration <= 0
            THEN <<(<<"Total duration must be positive">>)>> ELSE <<>>)
        \o Concat([i \in 1..Len(timeline.days) |-> TimelineDayValidate(timeline.days[i])])
        \o Concat([i \in 1..Len(timeline.dependencies) |-> of(timeline.dependencies[i])])
        \o (IF \E i \in 1..Len(sorted_numbers) : sorted_numbers[i] # i
            THEN <<(<<"Day numbers must be sequential starting from 1">>)>> ELSE <<>>)

\* What a stage of generate_timeline does: the timeline it leaves and the
\* exception it raised ("" if none).
Staged(timeline, raised) == [timeline |-> timeline, raised |-> raised]

\* The shared tail of the _add_* methods: an activity built from the count
\* of the first day's activities, inserted in front of the first day's
\* first activity, starting `before` and ending `gap` ahead of its start.
\* kind is <<id prefix, name, type, duration, priority, vendors, cost>>.
InsertFirst(timeline, kind, before, gap, buffer_before, buffer_after) ==
    IF timeline.days = <<>> THEN Staged(timeline, "IndexError: list index out of range")
    ELSE LET first_day == timeline.days[1]
             first_start == first_day.activities[1].start_time
             added == Activity(kind[1] \o ToString(Len(first_day.activities) + 1),
                               kind[2], kind[3], kind[4], kind[5], kind[6], kind[7], 0, 0)
             timed == TimedActivity(added, first_start - before, first_start - gap,
                                    buffer_before, buffer_after)
         IN  Staged([timeline EXCEPT
                        !.days[1].activities = <<timed>> \o @,
                        !.days[1].estimated_cost = @ + kind[7]], "")

\* The same change made to every activity of every day, change[i][k] being
\* what becomes of activity k of day i.
WithActivities(timeline, change) ==
    [timeline EXCEPT !.days =
        [i \in 1..Len(timeline.days) |->
            [timeline.days[i] EXCEPT !.activities =
                [k \in 1..Len(timeline.days[i].activities) |-> change[i][k]]]]]

\* The categories of apply_guest_count_impact.
GuestCategory(guest_count) ==
    IF guest_count <= 50
    THEN [coordination_buffer |-> Minutes(15), setup_multiplier |-> 90,
          transition_time |-> Minutes(10)]
    ELSE IF guest_count <= 150
    THEN [coordination_buffer |-> Minutes(30), setup_multiplier |-> 100,
          transition_time |-> Minutes(15)]
    ELSE IF guest_count <= 300
    THEN [coordination_buffer |-> Minutes(45), setup_multiplier |-> 120,
          transition_time |-> Minutes(20)]
    ELSE [coordination_buffer |-> Hours(1), setup_multiplier |-> 150,
          transition_time |-> Minutes(30)]

\* The body of the loop of apply_guest_count_impact for activity number k
\* (from 1) of a day.
GuestCountAdjusted(ta, k, guest_count) ==
    LET c == GuestCategory(guest_count)
        a1 == IF k > 1 THEN [ta EXCEPT !.buffer_before = Max2(@, c.coordination_buffer)]
              ELSE ta
        new_duration == Scale(a1.activity.duration, c.setup_multiplier)
        a2 == IF a1.activity.activity_type = "preparation"
              THEN [a1 EXCEPT !.activity.duration = new_duration,
                              !.end_time = a1.start_time + a1.activity.setup_time
                                           + new_duration + a1.activity.cleanup_time]
              ELSE a1
    IN  IF guest_count > 150
        THEN [a2 EXCEPT !.buffer_after = Max2(@, c.transition_time)]
        ELSE a2

\* TimelineIntelligenceEngine.apply_guest_count_impact, with
\* _add_crowd_management_activities
apply_guest_count_impact(timeline, context) ==
    LET t1 == WithActivities(timeline,
                  [i \in 1..Len(timeline.days) |->
                      [k \in 1..Len(timeline.days[i].activities) |->
                          GuestCountAdjusted(timeline.days[i].activities[k], k,
                                             context.guest_count)]])
    IN  IF context.guest_count > 500
        THEN InsertFirst(t1, <<"crowd_mgmt_", "Crowd Management and Security Setup",
                               "preparation", Hours(1), "high",
                               <<"security", "coordinator">>, 2000>>,
                         Hours(1), 0, Minutes(15), Minutes(15))
        ELSE Staged(t1, "")

\* venue_adjustments, in per cent; a venue type without an entry has none.
venue_adjustments(venue_type) ==
    CASE venue_type = "outdoor" ->
            [setup_multiplier |-> 150, weather_buffer |-> 120,
             logistics_multiplier |-> 130, cleanup_multiplier |-> 140]
      [] venue_type = "indoor" ->
            [setup_multiplier |-> 100, weather_buffer |-> 100,
             logistics_multiplier |-> 100, cleanup_multiplier |-> 100]
      [] venue_type = "hybrid" ->
            [setup_multiplier |-> 130, weather_buffer |-> 110,
             logistics_multiplier |-> 120, cleanup_multiplier |-> 120]
      [] venue_type = "home" ->
            [setup_multiplier |-> 80, weather_buffer |-> 100,
             logistics_multiplier |-> 90, cleanup_multiplier |-> 110]
      [] venue_type = "banquet_hall" ->
            [setup_multiplier |-> 110, weather_buffer |-> 100,
             logistics_multiplier |-> 100, cleanup_multiplier |-> 90]
      [] venue_type = "hotel" ->
            [setup_multiplier |-> 90, weather_buffer |-> 100,
             logistics_multiplier |-> 80, cleanup_multiplier |-> 70]
      [] OTHER -> <<>>

\* dict.get(key, default)
GetOr(dict, key, default) == IF key \in DOMAIN dict THEN dict[key] ELSE default

\* The body of the loop of apply_venue_specific_adjustments for one activity.
VenueAdjusted(ta, context) ==
    LET adjustments == venue_adjustments(context.venue_type)
        activity_type == ta.activity.activity_type
        a1 == IF activity_type = "preparation"
              THEN [ta EXCEPT !.activity.duration =
                        Scale(@, GetOr(adjustments, "setup_multiplier", 100))]
              ELSE IF activity_type = "cleanup"
              THEN [ta EXCEPT !.activity.cleanup_time =
                        Scale(@, GetOr(adjustments, "cleanup_multiplier", 100))]
              ELSE ta
        a2 == IF context.venue_type = "outdoor"
              THEN [a1 EXCEPT !.buffer_before =
                        Scale(@, GetOr(adjustments, "weather_buffer", 100))]
              ELSE a1
    IN  IF context.venue_type \in {"home", "restaurant"}
        THEN IF context.guest_count > 100 /\ activity_type = "ceremony"
             THEN [a2 EXCEPT !.buffer_before = @ + Minutes(30)]
             ELSE a2
        ELSE IF context.venue_type = "hotel"
                /\ activity_type \in {"preparation", "cleanup"}
        THEN [a2 EXCEPT !.activity.duration = Scale(@, 80)]
        ELSE a2

\* TimelineIntelligenceEngine._add_venue_specific_activities
add_venue_specific_activities(timeline, context) ==
    IF context.venue_type = "outdoor"
    THEN InsertFirst(timeline, <<"weather_prep_", "Weather Preparation and Tent Setup",
                                 "preparation", Hours(2), "high",
                                 <<"tent_rental", "weather_service">>, 3000>>,
                     Hours(2), 0, Minutes(30), Minutes(15))
    ELSE IF context.venue_type = "home"
    THEN InsertFirst(timeline, <<"home_prep_", "Home Preparation and Space Optimization",
                                 "preparation", Minutes(90), "medium", <<>>, 500>>,
                     Minutes(90), 0, Minutes(15), Minutes(15))
    ELSE Staged(timeline, "")

\* TimelineIntelligenceEngine.apply_venue_specific_adjustments
apply_venue_specific_adjustments(timeline, context) ==
    add_venue_specific_activities(
        WithActivities(timeline,
            [i \in 1..Len(timeline.days) |->
                [k \in 1..Len(timeline.days[i].activities) |->
                    VenueAdjusted(timeline.days[i].activities[k], context)]]),
        context)

\* The cost totals optimize_timeline_for_context recomputes.
WithCosts(timeline) ==
    LET days == [i \in 1..Len(timeline.days) |->
                    [timeline.days[i] EXCEPT !.estimated_cost =
                        SumSeq([k \in 1..Len(timeline.days[i].activities) |->
                                   timeline.days[i].activities[k].activity.estimated_cost])]]
    IN  [timeline EXCEPT !.days = days,
                         !.total_estimated_cost =
                             SumSeq([i \in 1..Len(days) |-> days[i].estimated_cost])]

\* TimelineIntelligenceEngine.optimize_timeline_for_context.
\* apply_cultural_ceremony_sequencing changes cultural_significance and
\* contingency_plans only, which a TimedActivity here does not carry.
optimize_timeline_for_context(timeline, context) ==
    LET guest == apply_guest_count_impact(timeline, context)
        venue == apply_venue_specific_adjustments(guest.timeline, context)
    IN  IF guest.raised # "" THEN guest
        ELSE IF venue.raised # "" THEN venue
        ELSE Staged(WithCosts(venue.timeline), "")

\* `word in prompt.lower()`: the prompt of _generate_ai_prompt spells out the
\* event type, the venue type, the cultural requirements and the name of
\* every activity; its fixed text holds none of the words looked for.
PromptContains(timeline, context, word) ==
    \/ context.event_type = word
    \/ context.venue_type = word
    \/ word \in Range(context.cultural_requirements)
    \/ \E i \in 1..Len(timeline.days) : \E k \in 1..Len(timeline.days[i].activities) :
            StrContains(Lower(timeline.days[i].activities[k].activity.name), word)

\* TimelineIntelligenceEngine._call_ai_service: which simulated response.
call_ai_service(timeline, context) ==
    IF PromptContains(timeline, context, "wedding") /\ PromptContains(timeline, context, "hindu")
    THEN "hindu_wedding"
    ELSE IF PromptContains(timeline, context, "corporate") THEN "corporate"
    ELSE IF PromptContains(timeline, context, "muslim") THEN "muslim_wedding"
    ELSE "generic"

\* _apply_activity_enhancements: only the Hindu wedding response names
\* "Ganesh Puja" in its ACTIVITY_ENHANCEMENTS section.
apply_activity_enhancements(timeline, ai_response, context) ==
    IF ai_response = "hindu_wedding" /\ context.event_type = "wedding"
    THEN InsertFirst(timeline, <<"ai_ganesh_puja_", "Ganesh Puja (AI Enhanced)", "ceremony",
                                 Minutes(45), "high", <<>>, 1500>>,
                     Hours(1), Minutes(15), Minutes(15), Minutes(15))
    ELSE Staged(timeline, "")

\* _apply_logistics_optimizations, then _apply_guest_experience_enhancements,
\* on one activity.
AiAdjusted(ta) ==
    LET a1 == IF ta.activity.activity_type = "preparation"
              THEN [ta EXCEPT !.buffer_before = Max2(@, Minutes(20))] ELSE ta
    IN  IF a1.activity.activity_type \in {"ceremony", "entertainment"}
        THEN [a1 EXCEPT !.buffer_after = Max2(@, Minutes(15))] ELSE a1

\* _parse_and_apply_ai_response: every simulated response holds all five
\* sections; the timing and cultural sections change no field kept here.
parse_and_apply_ai_response(timeline, ai_response, context) ==
    LET added == apply_activity_enhancements(timeline, ai_response, context)
        t == added.timeline
    IN  IF added.raised # "" THEN added
        ELSE Staged(WithActivities(t,
                        [i \in 1..Len(t.days) |->
                            [k \in 1..Len(t.days[i].activities) |->
                                AiAdjusted(t.days[i].activities[k])]]), "")

\* _validate_ai_enhancements(enhanced, original) where both are the one
\* timeline object the AI stage changed in place: whether it finds issues.
ValidateAiEnhancementsFails(timeline) ==
    \/ TimelineValidate(timeline) # <<>>
    \/ 0 > timeline.total_estimated_cost
    \/ LET n == SumSeq([i \in 1..Len(timeline.days) |-> Len(timeline.days[i].activities)])
       IN  n > n * 2

\* _add_welcome_activity_if_missing
add_welcome_activity_if_missing(timeline) ==
    IF timeline.days = <<>> THEN timeline
    ELSE IF \E k \in 1..Len(timeline.days[1].activities) :
                StrContains(Lower(timeline.days[1].activities[k].activity.name), "welcome")
    THEN timeline
    ELSE InsertFirst(timeline, <<"rule_welcome_", "Guest Welcome and Registration",
                                 "preparation", Minutes(45), "medium", <<>>, 800>>,
                     Minutes(45), 0, Minutes(15), Minutes(15)).timeline

\* _ensure_proper_ceremony_spacing, then _optimize_for_guest_count, on one
\* activity.
RuleAdjusted(ta, context) ==
    LET a1 == IF ta.activity.activity_type = "ceremony"
              THEN [ta EXCEPT !.buffer_after = Max2(@, Minutes(30))] ELSE ta
    IN  IF context.guest_count > 200 /\ a1.activity.activity_type = "preparation"
        THEN [a1 EXCEPT !.buffer_before = Max2(@, Minutes(45))] ELSE a1

\* _apply_rule_based_enhancements; _add_cultural_elements and
\* _add_contingency_planning change no field kept here.
apply_rule_based_enhancements(timeline, context) ==
    LET t == add_welcome_activity_if_missing(timeline)
    IN  WithActivities(t,
            [i \in 1..Len(t.days) |->
                [k \in 1..Len(t.days[i].activities) |->
                    RuleAdjusted(t.days[i].activities[k], context)]])

\* enhance_timeline_with_ai(timeline, context, use_ai=True): any exception
\* of the AI stage, and any issue its validation finds, falls back to the
\* rule-based enhancements of the timeline as the AI stage left it.
enhance_timeline_with_ai(timeline, context) ==
    LET enhanced == parse_and_apply_ai_response(timeline,
                        call_ai_service(timeline, context), context)
    IN  IF enhanced.raised # "" \/ ValidateAiEnhancementsFails(enhanced.timeline)
        THEN apply_rule_based_enhancements(enhanced.timeline, context)
        ELSE enhanced.timeline

\* _fix_timeline_issues: returns the timeline as it is.
fix_timeline_issues(timeline, issues) == timeline

\* TimelineIntelligenceEngine._generate_fallback_timeline
generate_fallback_timeline(context, start_date) ==
    LET basic_activity == Activity("fallback_activity",
                                   "Basic " \o context.event_type \o " Event",
                                   "ceremony", Hours(4), "high", <<>>, 5000, 0, 0)
        timed_activity == TimedActivity(basic_activity,
                                        Combine(start_date, Hours(10)),
                                        Combine(start_date, Hours(14)),
                                        Minutes(30), Minutes(30))
    IN  Timeline(<<TimelineDay(1, start_date, <<timed_activity>>, 5000)>>,
                 Days(1), <<"fallback_activity">>, Hours(1), <<>>, 5000)

\* The steps of generate_timeline after the dependency analysis, for one
\* order the packer's topological_sort may return.
GenerateFrom(timed_activities, g, topo, gen_context, context, start_date) ==
    LET packed == schedule_activities_to_days(timed_activities, topo, gen_context)
        critical == SelectSeq(timed_activities, LAMBDA ta : ta.activity.priority = "critical")
        timeline ==
            Timeline(packed.days, gen_context.total_duration,
                     [i \in 1..Len(critical) |-> critical[i].activity.id],
                     SumSeq([i \in 1..Len(timed_activities) |->
                                timed_activities[i].buffer_before
                                + timed_activities[i].buffer_after]),
                     g.dependencies,
                     SumSeq([i \in 1..Len(packed.days) |-> packed.days[i].estimated_cost]))
        optimized == optimize_timeline_for_context(timeline, context)
        enhanced == enhance_timeline_with_ai(optimized.timeline, context)
        validation_errors == TimelineValidate(enhanced)
    IN  IF packed.raised # "" \/ optimized.raised # ""
        THEN generate_fallback_timeline(context, start_date)
        ELSE IF validation_errors # <<>>
        THEN fix_timeline_issues(enhanced, validation_errors)
        ELSE enhanced

\* TimelineIntelligenceEngine.generate_timeline, from the activities with
\* their final durations on: every Timeline the call can return.
generate_timeline(activities, context, start_date, preferences, today) ==
    LET gen_context == create_generation_context(context, start_date, preferences)
        timed_activities == calculate_activity_durations(activities)
    IN  UNION {IF analysed.raised # ""
               THEN {generate_fallback_timeline(context, start_date)}
               ELSE {GenerateFrom(timed_activities, analysed.graph, topo, gen_context,
                                  context, start_date)
                     : topo \in topological_sort(analysed.graph)}
               : analysed \in create_and_analyze_dependencies(timed_activities, today)}

-----------------------------------------------------------------------------
(* DependencyManager.calculate_buffer_time. A buffer is counted in ticks of *)
(* 1/10000 second: with durations of whole seconds every product below is a *)
(* whole number of ticks (and of microseconds, so timedelta rounds nothing). *)

TicksPerSecond == 10000

\* DependencyManager._initialize_buffer_rules: the priority multipliers in
\* per cent, the complexity and dependency multipliers in tenths.
buffer_time_rules ==
    [priority_multipliers |->
        [critical |-> 15, high |-> 20, medium |-> 25, low |-> 30, optional |-> 35],
     complexity_multipliers |-> [low |-> 10, medium |-> 12, high |-> 15, very_high |-> 20],
     dependency_multipliers |->
        [no_dependencies |-> 10, few_dependencies |-> 11, many_dependencies |-> 13,
         complex_dependencies |-> 15]]

\* DependencyManager._get_complexity_level, the score in tenths.
get_complexity_level(complexity_score) ==
    IF complexity_score <= 30 THEN "low"
    ELSE IF complexity_score <= 60 THEN "medium"
    ELSE IF complexity_score <= 80 THEN "high"
    ELSE "very_high"

\* Mutant of get_dependency_level: two dependencies already count as many.
get_dependency_level_early(dependency_count) ==
    IF dependency_count = 0 THEN "no_dependencies"
    ELSE IF dependency_count < 2 THEN "few_dependencies"
    ELSE IF dependency_count <= 5 THEN "many_dependencies"
    ELSE "complex_dependencies"

\* DependencyManager._get_dependency_level
get_dependency_level(dependency_count) ==
    IF dependency_count = 0 THEN "no_dependencies"
    ELSE IF dependency_count <= 2 THEN "few_dependencies"
    ELSE IF dependency_count <= 5 THEN "many_dependencies"
    ELSE "complex_dependencies"

\* DependencyManager.calculate_buffer_time: the buffer, in ticks.
calculate_buffer_time(activity, context, dependency_count) ==
    LET base_buffer_percentage ==
            IF activity.priority \in DOMAIN buffer_time_rules.priority_multipliers
            THEN buffer_time_rules.priority_multipliers[activity.priority]
            ELSE 25
        complexity_level == get_complexity_level(context.complexity_score)
        complexity_multiplier == buffer_time_rules.complexity_multipliers[complexity_level]
        dependency_level == get_dependency_level(dependency_count)
        dependency_multiplier == buffer_time_rules.dependency_multipliers[dependency_level]
        base_buffer == activity.duration * base_buffer_percentage
        total_multiplier == complexity_multiplier * dependency_multiplier
        buffer_time == base_buffer * total_multiplier
        min_buffer == Minutes(15) * TicksPerSecond
        max_buffer == Hours(2) * TicksPerSecond
    IN  Max2(min_buffer, Min2(buffer_time, max_buffer))

-----------------------------------------------------------------------------
(* The calls on one graph, as actions. result is what the last call did:   *)
(* its name, the exception it raised ("" if none) and its value: the value  *)
(* returned, or the argument of a call that returns None.                  *)

Result(op, raised, value) == [op |-> op, raised |-> raised, value |-> value]

AddActivity(a) ==
    LET out == add_activity(graph, a)
    IN  /\ graph' = out.graph
        /\ result' = Result("add_activity", out.raised, a)

AddDependency(d) ==
    LET out == add_dependency(graph, d)
    IN  /\ graph' = out.graph
        /\ result' = Result("add_dependency", out.raised, d)

HasCycle ==
    /\ result' = Result("has_cycle", "", has_cycle(graph))
    /\ graph' = AfterAdvisory(graph)

TopologicalSort ==
    \E topo \in topological_sort(graph) :
        /\ result' = Result("topological_sort", topo.raised, topo.order)
        /\ UNCHANGED graph

CalculateCriticalPath(start_time) ==
    \E out \in calculate_critical_path(graph, start_time) :
        /\ graph' = out.graph
        /\ result' = Result("calculate_critical_path", out.raised, start_time)

ResolveConflicts ==
    /\ result' = Result("resolve_conflicts", "", resolve_conflicts(graph))
    /\ graph' = AfterAdvisory(graph)

\* DependencyManager._forward_pass, _backward_pass and _calculate_slack
\* called one by one, as calculate_critical_path calls them.
ForwardPass(start_time) ==
    \E topo \in topological_sort(graph) :
        LET out == forward_pass(graph, topo, start_time)
        IN  /\ graph' = out.graph
            /\ result' = Result("forward_pass", out.raised, start_time)

BackwardPass ==
    \E topo \in topological_sort(graph) :
        LET out == backward_pass(graph, topo)
        IN  /\ graph' = out.graph
            /\ result' = Result("backward_pass", out.raised, None)

CalculateSlack ==
    /\ graph' = calculate_slack(graph)
    /\ result' = Result("calculate_slack", "", None)

ValidateTimeline ==
    /\ result' = Result("validate_timeline", "", validate_timeline(graph))
    /\ graph' = AfterAdvisory(graph)

OptimizeTimeline ==
    /\ result' = Result("optimize_timeline", "", optimize_timeline(graph))
    /\ graph' = AfterAdvisory(graph)

\* calculate_buffer_time on the arguments of the input.
CalculateBufferTime ==
    /\ result' = Result("calculate_buffer_time", "",
                        calculate_buffer_time(input.activity, input.context,
                                              input.dependency_count))
    /\ UNCHANGED graph

\* create_dependency_graph on the activity list of the input; the graph a
\* call that raises would have returned is never bound.
CreateDependencyGraph ==
    LET out == create_dependency_graph(input.activities)
    IN  /\ graph' = IF out.raised = "" THEN out.graph ELSE graph
        /\ result' = Result("create_dependency_graph", out.raised, None)

\* The TimelineGenerationContext and the TimedActivity list generate_timeline
\* derives from its arguments.
GenContext == create_generation_context(input.context, input.start_date, input.preferences)

TimedActivities == calculate_activity_durations(input.activities)

\* _create_and_analyze_dependencies on the engine's activities.
CreateAndAnalyzeDependencies(today) ==
    \E out \in create_and_analyze_dependencies(TimedActivities, today) :
        /\ graph' = IF out.raised = "" THEN out.graph ELSE graph
        /\ result' = Result("create_and_analyze_dependencies", out.raised, today)

\* _schedule_activities_to_days on the graph the analysis returned.
ScheduleActivitiesToDays ==
    \E topo \in topological_sort(graph) :
        LET out == schedule_activities_to_days(TimedActivities, topo, GenContext)
        IN  /\ result' = Result("schedule_activities_to_days", out.raised, out.days)
            /\ UNCHANGED graph

\* generate_timeline on the arguments of the input.
GenerateTimeline(today) ==
    \E timeline \in generate_timeline(input.activities, input.context, input.start_date,
                                      input.preferences, today) :
        /\ result' = Result("generate_timeline", "", timeline)
        /\ UNCHANGED graph

\* One independent planning run on the input: graph construction, CPM and
\* day packing; it records the order packed, the node timings and the days.
PlanRun(today) ==
    \E analysed \in create_and_analyze_dependencies(TimedActivities, today) :
        \/ /\ analysed.raised # ""
           /\ runs' = Append(runs, [raised |-> analysed.raised, order |-> <<>>,
                                    nodes |-> <<>>, days |-> <<>>])
        \/ /\ analysed.raised = ""
           /\ \E topo \in topological_sort(analysed.graph) :
                runs' = Append(runs,
                    [raised |-> "", order |-> topo.order, nodes |-> analysed.graph.nodes,
                     days |-> schedule_activities_to_days(TimedActivities, topo,
                                                          GenContext).days])

\* No pass has written a timing field yet.
Unanalysed(g) == \A id \in NodeIds(g) : g.nodes[id].earliest_start = None

-----------------------------------------------------------------------------
(* The graph construction calls, given well-formed and malformed arguments. *)

MaxApiDeps == 2

\* Activities a caller may pass: well-formed ones ("a" in two versions), one
\* with an empty id, and "b" well-formed or breaking one field invariant.
ApiActivities ==
    {Activity("a", "A", "ceremony", 1, "high", <<>>, 0, 0, 0),
     Activity("a", "A2", "ceremony", 2, "high", <<>>, 0, 0, 0),
     Activity("", "E", "ceremony", 1, "high", <<>>, 0, 0, 0),
     Activity("b", "B", "ceremony", 1, "high", <<>>, 0, 0, 0),
     Activity("b", "", "ceremony", 1, "high", <<>>, 0, 0, 0),
     Activity("b", "B", "ceremony", 0, "high", <<>>, 0, 0, 0),
     Activity("b", "B", "ceremony", 1, "high", <<>>, 0 - 1, 0, 0)}

\* Dependencies a caller may pass: between ids of the graph, the empty id
\* and an id ("z") no activity has; of a known type or an unknown one.
ApiDependencies ==
    {Dependency(p, q, t, 0) : p \in {"a", "b", "", "z"}, q \in {"a", "b", "", "z"},
                              t \in {"finish_to_start", "bogus"}}

Init ==
    /\ graph = DependencyGraph
    /\ result = Result("init", "", None)
    /\ input = None
    /\ runs = <<>>

Next ==
    \/ (\E a \in ApiActivities : AddActivity(a)) /\ UNCHANGED engineVars
    \/ /\ Len(graph.dependencies) < MaxApiDeps
       /\ \E d \in ApiDependencies : AddDependency(d)
       /\ UNCHANGED engineVars
    \/ HasCycle /\ UNCHANGED engineVars

Spec == Init /\ [][Next]_vars

-----------------------------------------------------------------------------
(* Graphs built by create_dependency_graph from an activity list.          *)

MaxAutoActivities == 3

AutoStartTimes == {Hours(9)}

AutoIds == <<"a", "b", "c", "d">>

\* The kinds of activity listed: <<type, name, priority, duration>>.
AutoKinds ==
    {<<"preparation", "Haldi", "medium", Hours(1)>>,
     <<"preparation", "Setup", "medium", Hours(1)>>,
     <<"ceremony", "Mehendi", "high", Hours(1)>>,
     <<"ceremony", "Wedding Reception", "critical", Hours(1)>>,
     <<"ceremony", "Prayer", "low", Hours(2)>>,
     <<"cleanup", "Cleanup", "low", Hours(1)>>,
     <<"photography", "Photos", "medium", Hours(1)>>,
     <<"catering", "Dinner", "medium", Hours(1)>>,
     <<"catering", "Walima", "medium", Hours(1)>>,
     <<"ceremony", "Nikkah", "high", Hours(1)>>}

\* The activity lists of a length: unique ids, "a", "b", ... by position.
AutoActivityLists(n) ==
    {[i \in 1..n |-> Activity(AutoIds[i], ks[i][2], ks[i][1], ks[i][4], ks[i][3], <<>>, 0, 0, 0)]
     : ks \in [1..n -> AutoKinds]}

InitAuto ==
    /\ \E n \in 0..MaxAutoActivities : \E acts \in AutoActivityLists(n) :
            input = [activities |-> acts]
    /\ graph = DependencyGraph
    /\ result = Result("init", "", None)
    /\ runs = <<>>

NextAuto ==
    \/ result.op = "init" /\ CreateDependencyGraph /\ UNCHANGED engineVars
    \/ result.op # "init" /\ HasCycle /\ UNCHANGED engineVars
    \/ result.op # "init" /\ TopologicalSort /\ UNCHANGED engineVars
    \/ /\ result.op = "create_dependency_graph"
       /\ result.raised = ""
       /\ \E start_time \in AutoStartTimes : CalculateCriticalPath(start_time)
       /\ UNCHANGED engineVars

SpecAuto == InitAuto /\ [][NextAuto]_vars

-----------------------------------------------------------------------------
(* Timeline generation: the engine's calls on the activities of an event.  *)

MaxEngineActivities == 3

MaxRuns == 2

EngineIds == <<"activity_1", "activity_2", "activity_3", "activity_4">>

\* The kinds of activity an event holds, with the durations
\* calculate_activity_duration left them: <<type, name, duration, priority,
\* setup_time, cleanup_time, estimated_cost>>.
EngineKinds ==
    {<<"preparation", "Venue Setup and Preparation", 9000, "high", 1800, 0, 1000>>,
     <<"ceremony", "Wedding Ceremony", 7200, "critical", 0, 0, 5000>>,
     <<"photography", "Photography and Videography Setup", 3600, "medium", 900, 0, 2000>>,
     <<"ceremony", "Grand Reception", 28800, "high", 7200, 7200, 8000>>,
     <<"ceremony", "Grand Reception", 3600, "high", 0, 0, 3000>>}

EngineActivityLists(n) ==
    {[i \in 1..n |-> Activity(EngineIds[i], ks[i][2], ks[i][1], ks[i][3], ks[i][4],
                              <<>>, ks[i][7], ks[i][5], ks[i][6])]
     : ks \in [1..n -> EngineKinds]}

\* The events planned: type, guest count, venue and cultural requirements.
EngineContexts ==
    {[event_type |-> e[1], cultural_requirements |-> e[2], guest_count |-> g,
      venue_type |-> v, duration_days |-> 2]
     : e \in {<<"wedding", <<"hindu">> >>, <<"corporate", <<>> >>},
       g \in {40, 200, 600},
       v \in {"indoor", "outdoor", "hotel"}}

\* The preferences passed: none, or a shorter day.
EnginePreferences == {<<>>, [daily_hours |-> 3]}

\* The dates the clock may give a run.
EngineTodays == {0, 1}

InitEngine ==
    /\ \E n \in 0..MaxEngineActivities : \E acts \in EngineActivityLists(n) :
       \E c \in EngineContexts : \E prefs \in EnginePreferences :
            input = [activities |-> acts, context |-> c, start_date |-> 0,
                     preferences |-> prefs]
    /\ graph = DependencyGraph
    /\ result = Result("init", "", None)
    /\ runs = <<>>

NextEngine ==
    \/ /\ result.op = "init"
       /\ \E today \in EngineTodays : CreateAndAnalyzeDependencies(today)
       /\ UNCHANGED engineVars
    \/ /\ result.op = "create_and_analyze_dependencies"
       /\ result.raised = ""
       /\ ScheduleActivitiesToDays
       /\ UNCHANGED engineVars
    \/ /\ result.op = "init"
       /\ runs = <<>>
       /\ \E today \in EngineTodays : GenerateTimeline(today)
       /\ UNCHANGED engineVars
    \/ /\ result.op = "init"
       /\ Len(runs) < MaxRuns
       /\ \E today \in EngineTodays : PlanRun(today)
       /\ UNCHANGED <<graph, result, input>>

SpecEngine == InitEngine /\ [][NextEngine]_vars

-----------------------------------------------------------------------------
(* Scheduling analysis of the graphs built from well-formed activities.    *)

MaxDeps == 2

CpmIds == <<"a", "b", "c">>

CpmDurations == {1, 2}

CpmStartTimes == {10}

\* The kinds of edge drawn: every dependency type, some with a lag.
CpmKinds ==
    {<<"finish_to_start", 1>>, <<"start_to_start", 0>>,
     <<"finish_to_finish", 0>>, <<"start_to_finish", 1>>}

CpmActivities ==
    {Activity(id, id, "ceremony", dur, "high", <<>>, 0, 0, 0)
     : id \in Range(CpmIds), dur \in CpmDurations}

CpmDependencies ==
    {Dependency(ps[1], ps[2], k[1], k[2])
     : ps \in {x \in Range(CpmIds) \X Range(CpmIds) : x[1] # x[2]}, k \in CpmKinds}

\* Ids are opaque to every operation, so the first activity added is "a",
\* the second "b", the third "c".
CpmNextActivity(a) ==
    /\ Len(graph.keys) < Len(CpmIds)
    /\ a.id = CpmIds[Len(graph.keys) + 1]

\* The dependencies drawn are between activities the graph holds.
CpmKnownIds(d) == {d.predecessor_id, d.successor_id} \subseteq NodeIds(graph)

InitCPM ==
    /\ graph = DependencyGraph
    /\ result = Result("init", "", None)
    /\ input = None
    /\ runs = <<>>

NextCPM ==
    \/ /\ Unanalysed(graph)
       /\ \E a \in CpmActivities : CpmNextActivity(a) /\ AddActivity(a)
       /\ UNCHANGED engineVars
    \/ /\ Unanalysed(graph)
       /\ Len(graph.dependencies) < MaxDeps
       /\ \E d \in CpmDependencies : CpmKnownIds(d) /\ AddDependency(d)
       /\ UNCHANGED engineVars
    \/ Unanalysed(graph) /\ TopologicalSort /\ UNCHANGED engineVars
    \/ /\ \E start_time \in CpmStartTimes :
            Unanalysed(graph) /\ CalculateCriticalPath(start_time)
       /\ UNCHANGED engineVars
    \/ result.op = "calculate_critical_path" /\ ResolveConflicts /\ UNCHANGED engineVars

SpecCPM == InitCPM /\ [][NextCPM]_vars

-----------------------------------------------------------------------------
(* The advisory calls -- has_cycle, resolve_conflicts, validate_timeline,   *)
(* optimize_timeline -- on graphs whose activities share a vendor, analysed *)
(* or not, cyclic or not. Times are in seconds.                            *)

MaxAdvisoryDeps == 2

AdvisoryIds == <<"a", "b", "c">>

AdvisoryNames == [a |-> "A", b |-> "B", c |-> "C"]

AdvisoryStartTimes == {Hours(9)}

\* <<duration, required_vendors, estimated_cost>>: short and long
\* activities of vendor "v", one that lists the vendor twice, and one that
\* needs no vendor and whose cost breaks the field invariant.
AdvisoryKinds ==
    {<<Hours(1), <<"v">>, 0>>, <<Hours(5), <<"v">>, 0>>,
     <<Hours(1), <<"v", "v">>, 0>>, <<Hours(1), <<>>, 0 - 1>>}

AdvisoryActivities ==
    {Activity(id, AdvisoryNames[id], "ceremony", k[1], "high", k[2], k[3], 0, 0)
     : id \in Range(AdvisoryIds), k \in AdvisoryKinds}

\* Edges that make windows touch or leave a gap; without an edge two
\* activities start together.
AdvisoryDependencyKinds ==
    {<<"finish_to_start", 0>>, <<"finish_to_start", Minutes(30)>>}

\* Ids are opaque to every operation: the edges drawn leave the first two
\* activities, which is enough for chains, forks and the cycle a -> b -> a.
AdvisoryDependencies ==
    {Dependency(ps[1], ps[2], k[1], k[2])
     : ps \in {x \in Range(AdvisoryIds) \X Range(AdvisoryIds) :
                    x[1] # x[2] /\ x[1] # AdvisoryIds[Len(AdvisoryIds)]},
       k \in AdvisoryDependencyKinds}

AdvisoryNextActivity(a) ==
    /\ Len(graph.keys) < Len(AdvisoryIds)
    /\ a.id = AdvisoryIds[Len(graph.keys) + 1]

InitAdvisory ==
    /\ graph = DependencyGraph
    /\ result = Result("init", "", None)
    /\ input = None
    /\ runs = <<>>

NextAdvisory ==
    \/ /\ Unanalysed(graph)
       /\ graph.dependencies = <<>>
       /\ \E a \in AdvisoryActivities : AdvisoryNextActivity(a) /\ AddActivity(a)
       /\ UNCHANGED engineVars
    \/ /\ Unanalysed(graph)
       /\ Len(graph.dependencies) < MaxAdvisoryDeps
       /\ \E d \in AdvisoryDependencies : CpmKnownIds(d) /\ AddDependency(d)
       /\ UNCHANGED engineVars
    \/ /\ \E start_time \in AdvisoryStartTimes :
            Unanalysed(graph) /\ CalculateCriticalPath(start_time)
       /\ UNCHANGED engineVars
    \/ HasCycle /\ UNCHANGED engineVars
    \/ ResolveConflicts /\ UNCHANGED engineVars
    \/ ValidateTimeline /\ UNCHANGED engineVars
    \/ OptimizeTimeline /\ UNCHANGED engineVars

SpecAdvisory == InitAdvisory /\ [][NextAdvisory]_vars

-----------------------------------------------------------------------------
(* The passes of the critical path method called one at a time, on graphs  *)
(* that grow between the calls.                                            *)

MaxPassDeps == 1

PassIds == <<"a", "b">>

PassDurations == {1, 2}

PassStartTimes == {10}

PassActivities ==
    {Activity(id, id, "ceremony", dur, "high", <<>>, 0, 0, 0)
     : id \in Range(PassIds), dur \in PassDurations}

PassDependencies ==
    {Dependency(ps[1], ps[2], "finish_to_start", 1)
     : ps \in {x \in Range(PassIds) \X Range(PassIds) : x[1] # x[2]}}

PassNextActivity(a) ==
    /\ Len(graph.keys) < Len(PassIds)
    /\ a.id = PassIds[Len(graph.keys) + 1]

InitPasses ==
    /\ graph = DependencyGraph
    /\ result = Result("init", "", None)
    /\ input = None
    /\ runs = <<>>

NextPasses ==
    \/ (\E a \in PassActivities : PassNextActivity(a) /\ AddActivity(a)) /\ UNCHANGED engineVars
    \/ /\ Len(graph.dependencies) < MaxPassDeps
       /\ \E d \in PassDependencies : CpmKnownIds(d) /\ AddDependency(d)
       /\ UNCHANGED engineVars
    \/ (\E start_time \in PassStartTimes : ForwardPass(start_time)) /\ UNCHANGED engineVars
    \/ BackwardPass /\ UNCHANGED engineVars
    \/ CalculateSlack /\ UNCHANGED engineVars
    \/ /\ \E start_time \in PassStartTimes : CalculateCriticalPath(start_time)
       /\ UNCHANGED engineVars

SpecPasses == InitPasses /\ [][NextPasses]_vars

-----------------------------------------------------------------------------
(* Scheduling on graphs that may hold a cycle: the graph of an activity    *)
(* list, analysed and then given one more edge, and generate_timeline on   *)
(* the same list. Times are in seconds.                                    *)

MaxCyclicActivities == 2

MaxCyclicDeps == 2

CyclicIds == <<"a", "b", "c">>

CyclicStartTimes == {Hours(10)}

CyclicTodays == {0}

\* The kinds of activity listed: <<type, name, priority, duration>>.
CyclicKinds ==
    {<<"preparation", "Haldi", "medium", Hours(1)>>,
     <<"preparation", "Setup", "medium", Hours(1)>>,
     <<"ceremony", "Mehendi", "critical", Hours(2)>>}

CyclicActivityLists(n) ==
    {[i \in 1..n |-> Activity(CyclicIds[i], ks[i][2], ks[i][1], ks[i][4], ks[i][3],
                              <<>>, 1000, 0, 0)]
     : ks \in [1..n -> CyclicKinds]}

CyclicContext ==
    [event_type |-> "wedding", cultural_requirements |-> <<"hindu">>, guest_count |-> 40,
     venue_type |-> "indoor", duration_days |-> 2]

\* The edges a caller adds by hand, between activities of the graph.
CyclicDependencies ==
    {Dependency(ps[1], ps[2], "finish_to_start", 0)
     : ps \in {x \in NodeIds(graph) \X NodeIds(graph) : x[1] # x[2]}}

InitCyclic ==
    /\ \E n \in 0..MaxCyclicActivities : \E acts \in CyclicActivityLists(n) :
            input = [activities |-> acts, context |-> CyclicContext, start_date |-> 0,
                     preferences |-> None]
    /\ graph = DependencyGraph
    /\ result = Result("init", "", None)
    /\ runs = <<>>

NextCyclic ==
    \/ result.op = "init" /\ CreateDependencyGraph /\ UNCHANGED engineVars
    \/ /\ result.op # "init"
       /\ Len(graph.dependencies) < MaxCyclicDeps
       /\ \E d \in CyclicDependencies : AddDependency(d)
       /\ UNCHANGED engineVars
    \/ /\ result.op # "init"
       /\ \E start_time \in CyclicStartTimes : CalculateCriticalPath(start_time)
       /\ UNCHANGED engineVars
    \/ result.op # "init" /\ TopologicalSort /\ UNCHANGED engineVars
    \/ (\E today \in CyclicTodays : GenerateTimeline(today)) /\ UNCHANGED engineVars

SpecCyclic == InitCyclic /\ [][NextCyclic]_vars

-----------------------------------------------------------------------------
(* Buffer times: calculate_buffer_time on activities of every priority,    *)
(* events of every complexity band and dependency counts from 0 up.        *)

MaxDependencyCount == 7

BufferPriorities == {"critical", "high", "medium", "low", "optional"}

\* Durations in seconds, from one second to a day and a half.
BufferDurations == {1, Minutes(5), Minutes(50), Hours(1), Hours(2), Hours(8), Hours(36)}

\* Complexity scores in tenths, on and beside the band limits.
BufferScores == {0, 30, 31, 60, 65, 80, 81, 100}

InitBuffer ==
    /\ \E pr \in BufferPriorities : \E d \in BufferDurations : \E sc \in BufferScores :
       \E n \in 0..MaxDependencyCount :
            input = [activity |-> Activity("a", "A", "ceremony", d, pr, <<>>, 0, 0, 0),
                     context |-> [complexity_score |-> sc],
                     dependency_count |-> n]
    /\ graph = DependencyGraph
    /\ result = Result("init", "", None)
    /\ runs = <<>>

NextBuffer == result.op = "init" /\ CalculateBufferTime /\ UNCHANGED engineVars

SpecBuffer == InitBuffer /\ [][NextBuffer]_vars

-----------------------------------------------------------------------------
(* Reference notions the properties are stated with *)

\* The edges of the graph, read from the dependency list.
Edges(g) == {<<g.dependencies[i].predecessor_id, g.dependencies[i].successor_id>>
             : i \in 1..Len(g.dependencies)}

\* b is reached from a along at most k edges (k >= 1).
RECURSIVE ReachWithin(_, _, _, _)
ReachWithin(g, a, b, k) ==
    \/ <<a, b>> \in Edges(g)
    \/ /\ k > 1
       /\ \E m \in NodeIds(g) : <<a, m>> \in Edges(g) /\ ReachWithin(g, m, b, k - 1)

\* The graph has a directed cycle.
Cyclic(g) == \E n \in NodeIds(g) : ReachWithin(g, n, n, Cardinality(NodeIds(g)))

\* The position of an id in a list of distinct ids.
Pos(order, id) == CHOOSE i \in 1..Len(order) : order[i] = id

\* The graph of the same activities, added in the same order, with no
\* dependency drawn and no pass run.
Unlinked(g) ==
    [nodes |-> [id \in NodeIds(g) |-> DependencyNode(g.nodes[id].activity)],
     keys |-> g.keys, dependencies |-> <<>>, critical_path |-> <<>>, total_duration |-> 0]

\* Some node has slack 0 in one graph and a nonzero slack in the other.
SlackStatusDiffers(g, h) ==
    \E id \in NodeIds(g) : (g.nodes[id].slack = 0) # (h.nodes[id].slack = 0)

-----------------------------------------------------------------------------
(* Properties of the scheduling analysis (SpecCPM) *)

\* C2: topological_sort on an acyclic graph returns every node id exactly
\* once, the predecessor of every dependency before its successor; on a
\* graph with a cycle it raises the cycle error and returns no order.
C2_TopologicalSort ==
    result.op = "topological_sort" =>
        IF Cyclic(graph)
        THEN result.raised # "" /\ result.value = <<>>
        ELSE /\ result.raised = ""
             /\ Len(result.value) = Cardinality(NodeIds(graph))
             /\ Range(result.value) = NodeIds(graph)
             /\ \A e \in Edges(graph) : Pos(result.value, e[1]) < Pos(result.value, e[2])

\* C2 witness: a sort of three nodes joined by two dependencies that had to
\* move a node in front of one inserted before it.
C2_Witness ==
    /\ result.op = "topological_sort"
    /\ result.raised = ""
    /\ Len(result.value) = 3
    /\ Len(graph.dependencies) = 2
    /\ result.value # graph.keys

\* C3: after calculate_critical_path on an acyclic graph every node has
\* latest_start >= earliest_start, its slack is not negative, and
\* resolve_conflicts reports no over-constrained activity.
C3_SlackNeverNegative ==
    /\ (result.op = "calculate_critical_path" /\ ~Cyclic(graph)) =>
            \A id \in NodeIds(graph) :
                /\ graph.nodes[id].earliest_start # None
                /\ graph.nodes[id].latest_start # None
                /\ Val(graph.nodes[id].latest_start) >= Val(graph.nodes[id].earliest_start)
                /\ graph.nodes[id].slack >= 0
    /\ (result.op = "resolve_conflicts" /\ ~Cyclic(graph)) =>
            \A i \in 1..Len(result.value) : result.value[i][1] # "over_constrained"

\* C3 witness: conflicts resolved on an analysed graph of three nodes and
\* two dependencies in which some node has positive slack.
C3_Witness ==
    /\ result.op = "resolve_conflicts"
    /\ Cardinality(NodeIds(graph)) = 3
    /\ Len(graph.dependencies) = 2
    /\ \E id \in NodeIds(graph) : graph.nodes[id].slack > 0
    /\ \E id \in NodeIds(graph) : graph.nodes[id].slack = 0 /\ graph.nodes[id].predecessors # {}

\* C4: after calculate_critical_path, slack = latest_start - earliest_start
\* and is_critical holds exactly when slack is zero, for every node;
\* critical_path holds exactly the ids with slack 0, each once, in ascending
\* earliest_start order.
C4_CriticalPath ==
    (result.op = "calculate_critical_path" /\ result.raised = "") =>
        /\ \A id \in NodeIds(graph) :
              /\ graph.nodes[id].slack =
                    Val(graph.nodes[id].latest_start) - Val(graph.nodes[id].earliest_start)
              /\ graph.nodes[id].is_critical <=> (graph.nodes[id].slack = 0)
        /\ Range(graph.critical_path) = {id \in NodeIds(graph) : graph.nodes[id].slack = 0}
        /\ Len(graph.critical_path) = Cardinality(Range(graph.critical_path))
        /\ \A i, j \in 1..Len(graph.critical_path) :
              i < j => Val(graph.nodes[graph.critical_path[i]].earliest_start)
                         <= Val(graph.nodes[graph.critical_path[j]].earliest_start)

\* C4 witness: an analysed graph with a critical node that starts after
\* another critical node, and a node that is not critical.
C4_Witness ==
    /\ result.op = "calculate_critical_path"
    /\ result.raised = ""
    /\ Len(graph.critical_path) = 2
    /\ Cardinality(NodeIds(graph)) = 3
    /\ Val(graph.nodes[graph.critical_path[1]].earliest_start)
         < Val(graph.nodes[graph.critical_path[2]].earliest_start)
    /\ \E id \in NodeIds(graph) : graph.nodes[id].slack > 0

\* The graph is two activities joined by one dependency, just analysed.
LoneEdgeAnalysed ==
    /\ result.op = "calculate_critical_path"
    /\ result.raised = ""
    /\ Cardinality(NodeIds(graph)) = 2
    /\ Len(graph.dependencies) = 1

\* C15: for two activities connected by a single dependency and nothing
\* else, the CPM result with the edge and the CPM result without it differ
\* in the zero/nonzero status of at least one of the two slack values, for
\* all durations, equal ones included, and all lags.
C15_SlackSensitiveToEdge ==
    LoneEdgeAnalysed =>
        \A without \in calculate_critical_path(Unlinked(graph), result.value) :
            SlackStatusDiffers(graph, without.graph)

\* C15 as amended: when the single dependency is finish_to_start with a lag
\* >= 0 and the two total durations differ, both activities have slack 0
\* with the edge and the shorter one a nonzero slack without it, so the
\* status of that slack differs; when the two total durations are equal,
\* both activities have slack 0 with and without the edge, whatever its
\* type, and nothing differs.
C15_SlackSensitiveAmended ==
    LoneEdgeAnalysed =>
        \A without \in calculate_critical_path(Unlinked(graph), result.value) :
            LET a == graph.keys[1]
                b == graph.keys[2]
                da == NodeTotalDuration(graph.nodes[a])
                db == NodeTotalDuration(graph.nodes[b])
                shorter == IF da < db THEN a ELSE b
            IN  /\ without.raised = ""
                /\ (da # db /\ graph.dependencies[1].dependency_type = "finish_to_start"
                           /\ graph.dependencies[1].lag_time >= 0) =>
                        /\ \A id \in {a, b} : graph.nodes[id].slack = 0
                        /\ without.graph.nodes[shorter].slack # 0
                        /\ SlackStatusDiffers(graph, without.graph)
                /\ da = db =>
                        /\ \A id \in {a, b} : graph.nodes[id].slack = 0
                        /\ \A id \in {a, b} : without.graph.nodes[id].slack = 0
                        /\ ~SlackStatusDiffers(graph, without.graph)

\* C15 witness: lone finish_to_start edges between activities of different
\* and of equal durations have been analysed.
C15_Witness ==
    /\ LoneEdgeAnalysed
    /\ graph.dependencies[1].dependency_type = "finish_to_start"
    /\ NodeTotalDuration(graph.nodes["a"]) # NodeTotalDuration(graph.nodes["b"])
    /\ \A id \in NodeIds(graph) : graph.nodes[id].slack = 0

-----------------------------------------------------------------------------
(* Properties of the graph construction calls (Spec) *)

\* C9: add_dependency fails when either id is not a node of the graph, when
\* the two ids are equal, or when the type is not one of the four kinds, and
\* a failed call leaves the graph unchanged; in every other case it appends
\* the dependency and adds the successor to the predecessor's successors and
\* the predecessor to the successor's predecessors.
C9_AddDependency ==
    [][result'.op = "add_dependency" =>
        LET d == result'.value
            p == d.predecessor_id
            q == d.successor_id
        IN  IF \/ p \notin NodeIds(graph)
               \/ q \notin NodeIds(graph)
               \/ p = q
               \/ d.dependency_type \notin DependencyTypes
            THEN result'.raised # "" /\ graph' = graph
            ELSE /\ result'.raised = ""
                 /\ graph'.dependencies = Append(graph.dependencies, d)
                 /\ graph'.nodes[p].successors = graph.nodes[p].successors \cup {q}
                 /\ graph'.nodes[q].predecessors = graph.nodes[q].predecessors \cup {p}
    ]_vars

\* C10: add_activity fails with a validation error, and inserts nothing,
\* whenever the activity breaks one of its field invariants (empty id or
\* name, duration <= 0, negative cost).
C10_AddActivityValidates ==
    [][(result'.op = "add_activity" /\ ActivityValidate(result'.value) # <<>>) =>
            (result'.raised # "" /\ graph' = graph)
    ]_vars

\* C11: add_activity is an idempotent upsert: after add_activity(a) the node
\* map holds a under a.id, also when another activity was stored under that
\* id before; the predecessor and successor sets the node had are kept; and
\* making the same call again changes nothing.
C11_AddActivityUpsert ==
    [][(result'.op = "add_activity" /\ result'.raised = "") =>
        LET a == result'.value
        IN  /\ a.id \in NodeIds(graph')
            /\ graph'.nodes[a.id].activity = a
            /\ a.id \in NodeIds(graph) =>
                    /\ graph'.nodes[a.id].predecessors = graph.nodes[a.id].predecessors
                    /\ graph'.nodes[a.id].successors = graph.nodes[a.id].successors
            /\ add_activity(graph', a).graph = graph'
    ]_vars

-----------------------------------------------------------------------------
(* Properties of create_dependency_graph (SpecAuto) *)

\* C1: for every activity list with unique ids, the graph that
\* create_dependency_graph builds, once rules 1-5 have added their inferred
\* dependencies, has has_cycle() = false, and topological_sort() returns
\* exactly |nodes| ids.
C1_AutoRulesAcyclic ==
    /\ result.op = "has_cycle" => result.value = FALSE
    /\ result.op = "topological_sort" =>
            /\ result.raised = ""
            /\ Len(result.value) = Cardinality(NodeIds(graph))

\* The scenario of C14: A (preparation, 1 h), B (ceremony, 2 h) and
\* C (cleanup, 1 h), no setup or cleanup time, no ceremony word in a name.
ThreeActivityScenario ==
    input.activities =
        <<Activity("a", "Setup", "preparation", Hours(1), "medium", <<>>, 0, 0, 0),
          Activity("b", "Prayer", "ceremony", Hours(2), "low", <<>>, 0, 0, 0),
          Activity("c", "Cleanup", "cleanup", Hours(1), "low", <<>>, 0, 0, 0)>>

\* C14: for A (preparation, 1 h), B (ceremony, 2 h), C (cleanup, 1 h) and
\* project start 09:00, create_dependency_graph infers A -> B
\* (finish_to_start, 15 min) and B -> C (finish_to_start, 30 min), and
\* calculate_critical_path yields A 09:00-10:00, B 10:15-12:15,
\* C 12:45-13:45, slack 0 for all three and critical_path = [A, B, C].
C14_ThreeActivityChain ==
    (ThreeActivityScenario /\ result.op \in {"create_dependency_graph", "calculate_critical_path"}) =>
        /\ result.raised = ""
        /\ graph.dependencies =
                <<Dependency("a", "b", "finish_to_start", Minutes(15)),
                  Dependency("b", "c", "finish_to_start", Minutes(30))>>
        /\ result.op = "calculate_critical_path" =>
            /\ result.value = Hours(9)
            /\ graph.nodes["a"].earliest_start = Some(Hours(9))
            /\ graph.nodes["a"].earliest_finish = Some(Hours(10))
            /\ graph.nodes["b"].earliest_start = Some(Hours(10) + Minutes(15))
            /\ graph.nodes["b"].earliest_finish = Some(Hours(12) + Minutes(15))
            /\ graph.nodes["c"].earliest_start = Some(Hours(12) + Minutes(45))
            /\ graph.nodes["c"].earliest_finish = Some(Hours(13) + Minutes(45))
            /\ \A id \in {"a", "b", "c"} :
                    /\ graph.nodes[id].slack = 0
                    /\ graph.nodes[id].is_critical
                    /\ graph.nodes[id].latest_start = graph.nodes[id].earliest_start
            /\ graph.critical_path = <<"a", "b", "c">>

C14_Witness ==
    /\ ThreeActivityScenario
    /\ result.op = "calculate_critical_path"
    /\ result.raised = ""
    /\ graph.critical_path = <<"a", "b", "c">>

-----------------------------------------------------------------------------
(* Properties of the timeline engine (SpecEngine) *)

\* C5: in every TimelineDay that _schedule_activities_to_days emits, for any
\* activity list and any daily window, the sum over the day's activities of
\* setup + duration + cleanup + buffer_before + buffer_after does not exceed
\* the daily working-hours window.
C5_DayPacking ==
    (result.op = "schedule_activities_to_days" /\ result.raised = "") =>
        \A i \in 1..Len(result.value) :
            SumSeq([k \in 1..Len(result.value[i].activities) |->
                        ActivityDuration(result.value[i].activities[k])])
                <= Hours(GenContext.daily_schedule_hours)

\* C6: the TimelineDays the packer emits are numbered 1, 2, ..., n without a
\* gap, the first on the start date, each later one on the date after the
\* day emitted before it, and every day opens at the daily start-of-window
\* time of its date -- also when the first activity does not fit the window.
C6_DaysSequential ==
    (result.op = "schedule_activities_to_days" /\ result.raised = "") =>
        LET days == result.value
        IN  /\ \A i \in 1..Len(days) : days[i].day_number = i
            /\ days # <<>> => days[1].date = GenContext.start_date
            /\ \A i \in 1..(Len(days) - 1) : days[i + 1].date = days[i].date + 1
            /\ \A i \in 1..Len(days) :
                  days[i].activities[1].start_time - days[i].activities[1].buffer_before
                      = Combine(days[i].date, TimeOf(GenContext.start_time))

\* C7: two independent runs of graph construction, CPM and day packing on
\* the same activities, dependencies and project start produce the same
\* output: the same topological order, the same node timings, the same days
\* with the same start and end times, whatever order the runtime iterates
\* the predecessor and successor sets in.
C7_Deterministic ==
    \A i, j \in 1..Len(runs) : runs[i] = runs[j]

\* C8: in every TimelineDay of the Timeline generate_timeline returns, with
\* the day's activities sorted by start_time, each activity ends no later
\* than the next one starts.
C8_NoOverlap ==
    result.op = "generate_timeline" =>
        \A i \in 1..Len(result.value.days) :
            LET sorted_activities == SortedByStart(result.value.days[i].activities)
            IN  \A k \in 1..(Len(sorted_activities) - 1) :
                    sorted_activities[k].end_time <= sorted_activities[k + 1].start_time

-----------------------------------------------------------------------------
(* Properties of the advisory calls (SpecAdvisory) *)

\* The graph has been through calculate_critical_path.
Analysed(g) == \A id \in NodeIds(g) : g.nodes[id].earliest_start # None

\* The activity lists the vendor.
Requires(g, id, vendor) == vendor \in Range(g.nodes[id].activity.required_vendors)

\* The half-open windows [earliest_start, earliest_finish) of x and y meet.
WindowsOverlap(g, x, y) ==
    /\ Val(g.nodes[x].earliest_start) < Val(g.nodes[y].earliest_finish)
    /\ Val(g.nodes[y].earliest_start) < Val(g.nodes[x].earliest_finish)

\* The vendor entries of a list of conflicts that name x and y.
VendorEntriesFor(conflicts, g, vendor, x, y) ==
    {i \in 1..Len(conflicts) :
        /\ conflicts[i][1] = "vendor"
        /\ conflicts[i][2] = vendor
        /\ \/ <<conflicts[i][3], conflicts[i][4]>>
                    = <<g.nodes[x].activity.name, g.nodes[y].activity.name>>
           \/ <<conflicts[i][3], conflicts[i][4]>>
                    = <<g.nodes[y].activity.name, g.nodes[x].activity.name>>}

\* C12: after CPM, for every vendor and every pair of distinct activities
\* that require it and whose [earliest_start, earliest_finish) windows
\* overlap, resolve_conflicts returns a conflict entry for that pair, also
\* when the two are not adjacent in the vendor's list sorted by
\* earliest_start.
C12_VendorConflictsComplete ==
    (result.op = "resolve_conflicts" /\ Analysed(graph)) =>
        \A x, y \in NodeIds(graph) :
            (x # y /\ Requires(graph, x, "v") /\ Requires(graph, y, "v")
                   /\ WindowsOverlap(graph, x, y))
                => VendorEntriesFor(result.value, graph, "v", x, y) # {}

\* C13: on a graph of two activities that both require vendor v and whose
\* windows overlap, resolve_conflicts returns exactly one conflict entry,
\* which names both activities and v; it returns no vendor entry when the
\* windows only touch or are disjoint; and no entry pairs an activity with
\* itself.
C13_TwoActivityConflict ==
    (/\ result.op = "resolve_conflicts"
     /\ Analysed(graph)
     /\ Cardinality(NodeIds(graph)) = 2
     /\ \A id \in NodeIds(graph) : Requires(graph, id, "v")) =>
        /\ WindowsOverlap(graph, "a", "b") =>
                /\ Len(result.value) = 1
                /\ VendorEntriesFor(result.value, graph, "v", "a", "b") = {1}
        /\ ~WindowsOverlap(graph, "a", "b") =>
                \A i \in 1..Len(result.value) : result.value[i][1] # "vendor"
        /\ \A i \in 1..Len(result.value) :
                result.value[i][1] = "vendor" => result.value[i][3] # result.value[i][4]

-----------------------------------------------------------------------------
(* Properties of the passes called one at a time (SpecPasses) *)

\* C16: the computed fields of a node are populated only in the order
\* forward pass, backward pass, slack: no call leaves a node whose
\* latest_start or latest_finish is set while its earliest_start or
\* earliest_finish is unset, and a backward pass run on a graph in which the
\* forward pass has not completed fails and assigns no latest time.
C16_PassOrder ==
    [][/\ \A id \in NodeIds(graph') :
            (graph'.nodes[id].latest_start # None \/ graph'.nodes[id].latest_finish # None)
                => (graph'.nodes[id].earliest_start # None
                    /\ graph'.nodes[id].earliest_finish # None)
       /\ (result'.op = "backward_pass" /\ ~Analysed(graph)) =>
            (result'.raised # "" /\ graph' = graph)
    ]_vars

\* C17: a cyclic graph is fatal for scheduling. calculate_critical_path and
\* topological_sort raise on it and leave the graph -- every node's
\* earliest/latest/slack/is_critical fields, critical_path, total_duration --
\* as it was; generate_timeline on activities whose graph is cyclic raises
\* nothing and returns the fallback timeline: one day holding the one
\* activity "fallback_activity".
C17_CycleIsFatal ==
    [][/\ (result'.op \in {"calculate_critical_path", "topological_sort"} /\ Cyclic(graph)) =>
            (result'.raised # "" /\ graph' = graph)
       /\ (/\ result'.op = "generate_timeline"
           /\ Cyclic(create_dependency_graph(input.activities).graph)) =>
            /\ result'.raised = ""
            /\ Len(result'.value.days) = 1
            /\ Len(result'.value.days[1].activities) = 1
            /\ result'.value.days[1].activities[1].activity.id = "fallback_activity"
            /\ result'.value.critical_path = <<"fallback_activity">>
            /\ result'.value.dependencies = <<>>
            /\ graph' = graph
    ]_vars

\* A graph analysed, then made cyclic, on which calculate_critical_path has
\* raised: its timing fields and critical path are still there.
C17_Witness ==
    /\ result.op = "calculate_critical_path"
    /\ result.raised # ""
    /\ Cyclic(graph)
    /\ Analysed(graph)
    /\ graph.critical_path # <<>>

C20_TimelineCriticalPath ==
    (result.op = "generate_timeline" /\ result.value.critical_path # <<"fallback_activity">>) =>
        \E today \in EngineTodays :
            \E analysed \in create_and_analyze_dependencies(TimedActivities, today) :
                LET g == analysed.graph
                    cp == result.value.critical_path
                IN  /\ analysed.raised = ""
                    /\ Range(cp) = {id \in NodeIds(g) : g.nodes[id].slack = 0}
                    /\ Len(cp) = Cardinality(Range(cp))
                    /\ \A i, j \in 1..Len(cp) :
                          i < j => Val(g.nodes[cp[i]].earliest_start)
                                     <= Val(g.nodes[cp[j]].earliest_start)

EdgeCandidateStart(g, d) ==
    LET pred == g.nodes[d.predecessor_id]
        total == NodeTotalDuration(g.nodes[d.successor_id])
    IN  CASE d.dependency_type = "finish_to_start" -> Val(pred.earliest_finish) + d.lag_time
          [] d.dependency_type = "start_to_start" -> Val(pred.earliest_start) + d.lag_time
          [] d.dependency_type = "finish_to_finish" ->
                Val(pred.earliest_finish) + d.lag_time - total
          [] d.dependency_type = "start_to_finish" ->
                Val(pred.earliest_start) + d.lag_time - total

\* The dependencies of the list that lead into a node / out of a node.
EdgesInto(g, id) == {d \in Range(g.dependencies) : d.successor_id = id}

EdgesOutOf(g, id) == {d \in Range(g.dependencies) : d.predecessor_id = id}

\* C22: after the forward pass with project start S a node without
\* predecessors has earliest_start = S; every other node's earliest_start
\* is the maximum of S and one candidate per dependency into the node, every
\* dependency of graph.dependencies counted, also when several join the same
\* pair of activities; earliest_finish = earliest_start + setup + duration
\* + cleanup.
C22_ForwardPass ==
    (result.op = "calculate_critical_path" /\ result.raised = "") =>
        \A id \in NodeIds(graph) :
            LET node == graph.nodes[id]
                S == result.value
            IN  /\ node.predecessors = {} => Val(node.earliest_start) = S
                /\ node.predecessors # {} =>
                        Val(node.earliest_start) =
                            MaxOf({S} \cup {EdgeCandidateStart(graph, d) : d \in EdgesInto(graph, id)})
                /\ Val(node.earliest_finish) =
                        Val(node.earliest_start) + node.activity.setup_time
                        + node.activity.duration + node.activity.cleanup_time

\* The candidate finish the claim gives a dependency edge out of a node.
EdgeCandidateFinish(g, d) ==
    LET succ == g.nodes[d.successor_id]
        total == NodeTotalDuration(g.nodes[d.predecessor_id])
    IN  CASE d.dependency_type = "finish_to_start" -> Val(succ.latest_start) - d.lag_time
          [] d.dependency_type = "start_to_start" ->
                Val(succ.latest_start) - d.lag_time + total
          [] d.dependency_type = "finish_to_finish" -> Val(succ.latest_finish) - d.lag_time
          [] d.dependency_type = "start_to_finish" ->
                Val(succ.latest_finish) - d.lag_time + total

\* C23: after the backward pass, with project end the maximum
\* earliest_finish over all nodes, a node without successors has
\* latest_finish = project end; every other node's latest_finish is the
\* minimum of project end and one candidate per successor edge, mirroring
\* the forward formulas; latest_start = latest_finish - total_duration for
\* every node.
C23_BackwardPass ==
    (result.op = "calculate_critical_path" /\ result.raised = "" /\ NodeIds(graph) # {}) =>
        LET project_end ==
                MaxOf({Val(graph.nodes[n].earliest_finish) : n \in NodeIds(graph)})
        IN  \A id \in NodeIds(graph) :
                LET node == graph.nodes[id]
                IN  /\ node.successors = {} => Val(node.latest_finish) = project_end
                    /\ node.successors # {} =>
                            Val(node.latest_finish) =
                                MinOf({project_end}
                                      \cup {EdgeCandidateFinish(graph, d)
                                            : d \in EdgesOutOf(graph, id)})
                    /\ Val(node.latest_start) =
                            Val(node.latest_finish) - NodeTotalDuration(node)

\* b is reached from a along at most k steps of the successor relation.
RECURSIVE SuccessorReach(_, _, _, _)
SuccessorReach(g, a, b, k) ==
    \/ b \in g.nodes[a].successors
    \/ /\ k > 1
       /\ \E m \in g.nodes[a].successors : SuccessorReach(g, m, b, k - 1)

\* The successor relation of the graph contains a directed cycle.
SuccessorCycle(g) == \E n \in NodeIds(g) : SuccessorReach(g, n, n, Cardinality(NodeIds(g)))

\* C24: has_cycle() returns true exactly when the successor relation of the
\* graph contains a directed cycle, for every graph built by add_activity
\* and add_dependency (add_dependency accepts an edge that closes a cycle).
C24_HasCycleExact ==
    result.op = "has_cycle" => (result.value <=> SuccessorCycle(graph))

\* has_cycle has returned true on a graph of three activities.
C24_Witness ==
    /\ result.op = "has_cycle"
    /\ result.value = TRUE
    /\ Cardinality(NodeIds(graph)) = 3
    /\ Len(graph.dependencies) = 2

\* The activities of the days, day after day, each day in its list's order.
Packed(days) == Concat([i \in 1..Len(days) |-> days[i].activities])

\* C25: the packer neither reorders nor loses activities: the activity lists
\* of the days emitted, concatenated in day order, are a topological order
\* of the graph restricted to the activities supplied, so every activity
\* (the ids being unique) is scheduled exactly once, and the start times
\* increase along that order.
C25_PackerKeepsOrder ==
    (result.op = "schedule_activities_to_days" /\ result.raised = "") =>
        LET packed == Packed(result.value)
            ids == [k \in 1..Len(packed) |-> packed[k].activity.id]
            supplied == {TimedActivities[i].activity.id : i \in 1..Len(TimedActivities)}
        IN  /\ \A id \in supplied : Cardinality({k \in 1..Len(ids) : ids[k] = id}) = 1
            /\ Range(ids) = supplied
            /\ \A i, j \in 1..Len(ids) :
                    <<ids[i], ids[j]>> \in Edges(graph) => i < j
            /\ \A k \in 1..(Len(packed) - 1) : packed[k].start_time < packed[k + 1].start_time

\* Three activities packed into more than one day, the preparation listed
\* last and packed first.
C25_Witness ==
    /\ result.op = "schedule_activities_to_days"
    /\ result.raised = ""
    /\ Len(result.value) >= 2
    /\ Len(Packed(result.value)) = 3
    /\ Packed(result.value)[1].activity.id = "activity_3"

\* The pairs <<i, j>> of positions of a sequence whose ceremonies are both
\* matched with none matched between them: a matched ceremony and the next
\* matched one.
NextMatched(sequence, found) ==
    {ij \in (1..Len(sequence)) \X (1..Len(sequence)) :
        /\ ij[1] < ij[2]
        /\ sequence[ij[1]] \in DOMAIN found
        /\ sequence[ij[2]] \in DOMAIN found
        /\ \A k \in (ij[1] + 1)..(ij[2] - 1) : sequence[k] \notin DOMAIN found}

\* The graph holds a finish_to_start dependency with the lag from the
\* activity of each matched ceremony to that of the next matched one.
Chained(g, activities, sequence, lag_time) ==
    LET found == CeremonyActivities(activities, sequence)
    IN  \A ij \in NextMatched(sequence, found) :
            Dependency(found[sequence[ij[1]]], found[sequence[ij[2]]],
                       "finish_to_start", lag_time) \in Range(g.dependencies)

\* C26: cultural sequencing links the matched activities into a chain in
\* the tradition's order: for the Hindu list and the Muslim list every
\* matched ceremony's activity gets a finish_to_start dependency (lag 2 h
\* Hindu, 1 h Muslim) to the activity of the next matched ceremony of the
\* list, also when a ceremony between them has no matching activity.
C26_CulturalChain ==
    (result.op = "create_dependency_graph" /\ result.raised = "") =>
        /\ Chained(graph, input.activities,
                   <<"mehendi", "haldi", "sangeet", "wedding", "reception">>, 2 * 3600)
        /\ Chained(graph, input.activities, <<"nikkah", "mehndi", "walima">>, 3600)

\* C27: in the days the packer produces every finish_to_start dependency of
\* the graph is honoured together with its lag: the successor's start_time
\* is no earlier than the predecessor's end_time plus the lag_time.
C27_PackerHonoursLag ==
    (result.op = "schedule_activities_to_days" /\ result.raised = "") =>
        LET packed == Packed(result.value)
        IN  \A i \in 1..Len(graph.dependencies) :
                LET d == graph.dependencies[i]
                IN  d.dependency_type = "finish_to_start" =>
                        \A p, q \in 1..Len(packed) :
                            (/\ packed[p].activity.id = d.predecessor_id
                             /\ packed[q].activity.id = d.successor_id) =>
                                packed[q].start_time >= packed[p].end_time + d.lag_time

\* C28: after any sequence of add_activity and add_dependency calls,
\* accepted or rejected, b is in a.successors exactly when a is in
\* b.predecessors exactly when some dependency (a, b) is in
\* graph.dependencies; every id in a predecessor or successor set or in a
\* dependency is a key of nodes; no node is its own predecessor or successor.
C28_GraphConsistent ==
    /\ \A a, b \in NodeIds(graph) :
          /\ (b \in graph.nodes[a].successors) <=> (a \in graph.nodes[b].predecessors)
          /\ (b \in graph.nodes[a].successors) <=> (<<a, b>> \in Edges(graph))
    /\ \A a \in NodeIds(graph) :
          /\ graph.nodes[a].successors \subseteq NodeIds(graph)
          /\ graph.nodes[a].predecessors \subseteq NodeIds(graph)
          /\ a \notin graph.nodes[a].successors
          /\ a \notin graph.nodes[a].predecessors
    /\ \A e \in Edges(graph) : e[1] \in NodeIds(graph) /\ e[2] \in NodeIds(graph)

\* A dependency has just been rejected on a graph that holds an accepted
\* one.
C28_Witness ==
    /\ result.op = "add_dependency"
    /\ result.raised # ""
    /\ Len(graph.dependencies) >= 1
    /\ Cardinality(NodeIds(graph)) >= 2

\* C29: after calculate_critical_path on a non-empty acyclic graph,
\* critical_path is not empty (some node whose earliest_finish is the
\* project end has slack 0), every node's latest_finish is at most the
\* project end, and total_duration is the maximum earliest_finish minus the
\* start time.
C29_ProjectEnd ==
    (/\ result.op = "calculate_critical_path"
     /\ NodeIds(graph) # {}
     /\ ~Cyclic(graph)) =>
        LET project_end ==
                MaxOf({Val(graph.nodes[n].earliest_finish) : n \in NodeIds(graph)})
        IN  /\ result.raised = ""
            /\ graph.critical_path # <<>>
            /\ \E id \in NodeIds(graph) :
                    /\ Val(graph.nodes[id].earliest_finish) = project_end
                    /\ graph.nodes[id].slack = 0
                    /\ id \in Range(graph.critical_path)
            /\ \A id \in NodeIds(graph) : Val(graph.nodes[id].latest_finish) <= project_end
            /\ graph.total_duration = project_end - result.value

\* Three activities analysed, the one that ends last having a successor.
C29_Witness ==
    /\ result.op = "calculate_critical_path"
    /\ result.raised = ""
    /\ Cardinality(NodeIds(graph)) = 3
    /\ Len(graph.dependencies) = 2
    /\ \E id \in NodeIds(graph) :
            /\ graph.nodes[id].successors # {}
            /\ \A n \in NodeIds(graph) :
                    Val(graph.nodes[n].earliest_finish) <= Val(graph.nodes[id].earliest_finish)
    /\ \E id \in NodeIds(graph) : graph.nodes[id].slack > 0

\* C30: calculate_critical_path on a graph with no activities completes
\* without error and leaves critical_path empty and total_duration zero.
C30_EmptyGraph ==
    (result.op = "calculate_critical_path" /\ NodeIds(graph) = {}) =>
        /\ result.raised = ""
        /\ graph.critical_path = <<>>
        /\ graph.total_duration = 0

=============================================================================
